---- MODULE Spec2Model ----
(***************************************************************************)
(* A model of podsmith's audio analysis pipeline (src/pipeline2.py): the   *)
(* temporal aligner map_speakers_to_segments, the JSON stage cache         *)
(* (save_intermediate_json / load_intermediate_json), and the staged       *)
(* orchestrator run_full_pipeline with its aggregation step, and the audio *)
(* feature extractor extract_audio_features; and of the aligners           *)
(* align_segments of src/python_diarization.py and                         *)
(* map_speakers_to_segments of src/pipeline.py.                            *)
(*                                                                         *)
(* Times are points of a small integer grid, so that sums and comparisons  *)
(* of overlap durations are exact; a sample of the trimmed WAV lasts       *)
(* TicksPerSample grid units, so that int(time * sr) truncates.            *)
(***************************************************************************)
EXTENDS Integers, Sequences, FiniteSets, TLC

\* ------------------------------------------------------------------ bounds
\* Longest transcript (number of Whisper segments) given to the aligner.
MaxSegs == 2
\* Largest number of diarization tracks given to the aligner.
MaxTurns == 3
\* Largest number of calls of run_full_pipeline in one behaviour.
MaxRuns == 2
\* Largest number of faults (a collaborator that raises, a write that fails)
\* in one behaviour.
MaxFaults == 2
\* Longest list given to the aggregation step.
MaxLen == 3
MaxSamples == 2

\* ------------------------------------------------------------- value domains
\* The time grid: 0 s, 0.5 s, 1 s.
TimePoints == {0, 1, 2}
\* Speaker labels the diarizer hands out.
Speakers == {"A", "B"}
\* The recogniser's text of the segment starting at t (Whisper pads its text
\* with blanks; the aligner strips them).
TextAt(t) == CASE t = 0 -> " hi" [] t = 1 -> "yo " [] OTHER -> "ok"

\* str.strip() on the texts of the model.
Strip(s) ==
    CASE s = " hi" -> "hi" [] s = "yo " -> "yo" [] s = " hi yo " -> "hi yo" [] OTHER -> s

\* Whisper segments: start <= end (a zero-length segment is possible).
SegmentsIn ==
    {[start |-> s, end |-> e, text |-> TextAt(s)] :
        <<s, e>> \in {p \in TimePoints \X TimePoints : p[1] <= p[2]}}

\* Diarization tracks: a non-empty time span and the speaker's label.
TurnsIn ==
    {[speaker |-> k, start |-> p[1], end |-> p[2]] :
        k \in Speakers, p \in {q \in TimePoints \X TimePoints : q[1] < q[2]}}

SeqsUpTo(S, n) == UNION {[1..k -> S] : k \in 0..n}

\* -------------------------------------------------------------------- state
VARIABLES
    \* --- a call of map_speakers_to_segments (specification SpecAlign)
    whisper_segments,   \* argument: the list of Whisper segments
    diarization,        \* argument: the tracks, in itertracks order
    mapped_segments,    \* the list pipeline2.map_speakers_to_segments returned
    aligned,            \* the list python_diarization.align_segments returned
    apc,                \* "off" | "input" | "mapped" | "aligned"
    pipeline_mapped,    \* what pipeline.map_speakers_to_segments returned
    \* --- a call of extract_audio_features (specification SpecFeatures)
    feat_segments,      \* the segments given
    feat_samples,       \* len(y): the samples of the trimmed WAV
    feat_result,        \* "none" | what the call returned | where it raised
    ser_result,         \* "none" | what run_speech_emotion_recognition returned | "raised"
    \* --- the output directory (specification Spec)
    cache,              \* step name -> the file <filename_base>_<step_name>.json
    wav_exists,         \* whether <filename_base>_trimmed.wav exists
    saved_final,        \* what save_final_results was last given
    \* --- a call of run_full_pipeline
    pc,                 \* "unloaded" | "import_failed" | "idle" (no call running) | the step about to run
    whisper_result,
    diarization_list,
    diarization_reconstructed,  \* the Annotation's tracks, in itertracks order
    diarized_segments,
    texts,
    audio_features,
    text_embeddings,
    text_emotions,
    speech_emotions,
    keywords,
    result,             \* what the last call returned
    \* --- a record of the current call
    start_cache,        \* the cache when the call began
    computed,           \* the steps whose compute function was called
    saved,              \* step name -> the outcomes of its save_intermediate_json calls
    stopped,            \* why the call ended early: "none" | a step | "no_segments" | "raised"
    runs,               \* calls begun so far
    faults,             \* faults so far
    loaded_steps,       \* the steps whose record was loaded in the call
    unread,             \* the steps whose record could not be opened or read in the call
    published,          \* what save_final_results was given in the call, in order
    prev_run,           \* how the call before this one ended
    last_write,         \* step name -> the last write of its record
    observed,           \* step name -> the values its compute function returned so far
    other_records,      \* step name -> the file of that step of another run (OtherRun)
    \* --- the input of the call and the trimmed WAV
    recording,          \* the recording the call was given
    wav_source,         \* the recording the trimmed WAV was made from, or "none"
    \* --- the process: the module's globals (pipeline2.py 29-44)
    hf_token,           \* HF_TOKEN in the environment: "set" | "empty" | "missing"
    models,             \* model name -> "unset" (None) | "ready" | "partial"
    constructed,        \* model name -> constructor calls that returned
    last_get            \* model name -> its getter's last call: "none" | "returned" | "raised"

fvars == <<feat_segments, feat_samples, feat_result, ser_result>>
avars == <<whisper_segments, diarization, mapped_segments, aligned, apc,
           pipeline_mapped, fvars>>
files == <<cache, wav_exists, saved_final>>
locals == <<whisper_result, diarization_list, diarization_reconstructed,
            diarized_segments, texts, audio_features, text_embeddings,
            text_emotions, speech_emotions, keywords>>
getters == <<models, constructed, last_get>>
\* What steps 2 to 8 never change.
run_frame == <<hf_token, recording, wav_source, prev_run, published>>
pvars == <<files, pc, locals, result, start_cache, computed, saved, stopped, runs, faults,
           loaded_steps, unread, last_write, observed, other_records, getters, run_frame>>
vars == <<avars, pvars>>

\* ------------------------------------------------------------- the aligner
Max2(a, b) == IF a >= b THEN a ELSE b
Min2(a, b) == IF a <= b THEN a ELSE b

\* pipeline2.py 247-249: the overlap of a segment and a track, never negative.
overlap_duration(seg, turn) ==
    Max2(0, Min2(seg.end, turn.end) - Max2(seg.start, turn.start))

\* A variant that keeps the tracks with a zero overlap too (>= for >).
RECURSIVE overlapping_speakers_inclusive(_, _)
overlapping_speakers_inclusive(seg, tracks) ==
    IF tracks = <<>> THEN <<>>
    ELSE LET turn == Head(tracks)
             d == overlap_duration(seg, turn)
         IN <<[speaker |-> turn.speaker, duration |-> d]>>
            \o overlapping_speakers_inclusive(seg, Tail(tracks))

\* pipeline2.py 245-252: the (speaker, duration) pairs of the tracks with a
\* strictly positive overlap, in iteration order.
RECURSIVE overlapping_speakers(_, _)
overlapping_speakers(seg, tracks) ==
    IF tracks = <<>> THEN <<>>
    ELSE LET turn == Head(tracks)
             d == overlap_duration(seg, turn)
             rest == overlapping_speakers(seg, Tail(tracks))
         IN IF d > 0 THEN <<[speaker |-> turn.speaker, duration |-> d]>> \o rest
            ELSE rest

\* pipeline2.py 256-258: speaker_counts[speaker], the sum of the speaker's
\* durations.
RECURSIVE speaker_counts(_, _)
speaker_counts(ov, speaker) ==
    IF ov = <<>> THEN 0
    ELSE (IF Head(ov).speaker = speaker THEN Head(ov).duration ELSE 0)
         + speaker_counts(Tail(ov), speaker)

\* The keys of the dict speaker_counts in insertion order: each speaker at
\* its first pair.
RECURSIVE dict_keys(_, _)
dict_keys(ov, seen) ==
    IF ov = <<>> THEN <<>>
    ELSE IF Head(ov).speaker \in seen THEN dict_keys(Tail(ov), seen)
         ELSE <<Head(ov).speaker>> \o dict_keys(Tail(ov), seen \cup {Head(ov).speaker})

\* A variant that keeps the last of the maximal elements.
last_max(keys, ov) ==
    LET i == CHOOSE i \in 1..Len(keys) :
                /\ \A j \in 1..Len(keys) :
                      speaker_counts(ov, keys[j]) <= speaker_counts(ov, keys[i])
                /\ \A j \in (i + 1)..Len(keys) :
                      speaker_counts(ov, keys[j]) < speaker_counts(ov, keys[i])
    IN keys[i]

\* max(keys, key=f): Python keeps the first of the maximal elements.
first_max(keys, ov) ==
    LET i == CHOOSE i \in 1..Len(keys) :
                /\ \A j \in 1..Len(keys) :
                      speaker_counts(ov, keys[j]) <= speaker_counts(ov, keys[i])
                /\ \A j \in 1..(i - 1) :
                      speaker_counts(ov, keys[j]) < speaker_counts(ov, keys[i])
    IN keys[i]

\* A variant that takes the speaker of the single longest overlap instead of
\* the largest sum.
speaker_id_longest_turn(seg, tracks) ==
    LET ov == overlapping_speakers(seg, tracks)
        i == CHOOSE i \in 1..Len(ov) :
                /\ \A j \in 1..Len(ov) : ov[j].duration <= ov[i].duration
                /\ \A j \in 1..(i - 1) : ov[j].duration < ov[i].duration
    IN IF ov = <<>> THEN "Unknown" ELSE ov[i].speaker

\* pipeline2.py 254-260: the speaker of one segment.
speaker_id(seg, tracks) ==
    LET ov == overlapping_speakers(seg, tracks)
    IN IF ov = <<>> THEN "Unknown" ELSE first_max(dict_keys(ov, {}), ov)

\* A variant that leaves out the segments no track overlaps.
RECURSIVE map_speakers_dropping_unknown(_, _)
map_speakers_dropping_unknown(segs, tracks) ==
    IF segs = <<>> THEN <<>>
    ELSE LET seg == Head(segs)
             rest == map_speakers_dropping_unknown(Tail(segs), tracks)
         IN IF speaker_id(seg, tracks) = "Unknown" THEN rest
            ELSE <<[start |-> seg.start, end |-> seg.end, text |-> Strip(seg.text),
                    speaker |-> speaker_id(seg, tracks)]>> \o rest

\* pipeline2.py 228-269.
map_speakers_to_segments(segs, tracks) ==
    [i \in 1..Len(segs) |->
        [start |-> segs[i].start,
         end |-> segs[i].end,
         text |-> Strip(segs[i].text),
         speaker |-> speaker_id(segs[i], tracks)]]

\* ------------------------------------- python_diarization.align_segments
\* python_diarization.py 49-52: the tracks the segment is not entirely before
\* or after, in list order.
RECURSIVE overlapping(_, _)
overlapping(s, dia) ==
    IF dia = <<>> THEN <<>>
    ELSE LET seg == Head(dia)
             rest == overlapping(s, Tail(dia))
         IN IF ~(s.end <= seg.start \/ s.start >= seg.end) THEN <<seg>> \o rest
            ELSE rest

\* python_diarization.py 55: the key of max, which may be zero or negative.
overlap_key(s, seg) == Min2(s.end, seg.end) - Max2(s.start, seg.start)

\* python_diarization.py 55: max(overlapping, key=...), the first maximal track.
best_seg(s, ovl) ==
    LET i == CHOOSE i \in 1..Len(ovl) :
                /\ \A j \in 1..Len(ovl) : overlap_key(s, ovl[j]) <= overlap_key(s, ovl[i])
                /\ \A j \in 1..(i - 1) : overlap_key(s, ovl[j]) < overlap_key(s, ovl[i])
    IN ovl[i]

\* python_diarization.py 45-66.
align_segments(ts, dia) ==
    [i \in 1..Len(ts) |->
        LET ovl == overlapping(ts[i], dia)
        IN [start |-> ts[i].start,
            end |-> ts[i].end,
            text |-> Strip(ts[i].text),
            speaker |-> IF ovl # <<>> THEN "Speaker_" \o best_seg(ts[i], ovl).speaker
                        ELSE "Speaker_unknown"]]

\* ------------------------------------- pipeline.map_speakers_to_segments
\* pipeline.py 44-47: the speakers of the turns with start < turn.end and
\* end > turn.start, one entry per turn, in track order.
RECURSIVE overlapping_labels(_, _)
overlapping_labels(seg, tracks) ==
    IF tracks = <<>> THEN <<>>
    ELSE LET turn == Head(tracks)
             rest == overlapping_labels(seg, Tail(tracks))
         IN IF seg.start < turn.end /\ seg.end > turn.start
            THEN <<turn.speaker>> \o rest
            ELSE rest

\* overlapping.count(k).
label_count(labels, k) == Cardinality({j \in 1..Len(labels) : labels[j] = k})

\* The orders in which a set of speaker labels can be iterated: the hash seed
\* of the process and the order of insertion decide the order of a set of
\* strings, and the set is built anew for every segment (50).
SetOrders == {<<"A", "B">>, <<"B", "A">>}

\* pipeline.py 48-50: max(set(overlapping), key=overlapping.count) is the
\* first of the most frequent speakers in the iteration order of the set.
most_frequent(labels, order) ==
    LET found == {labels[j] : j \in 1..Len(labels)}
        best == {k \in found : \A other \in found :
                                   label_count(labels, other) <= label_count(labels, k)}
        first == CHOOSE j \in 1..Len(order) :
                    /\ order[j] \in best
                    /\ \A h \in 1..(j - 1) : order[h] \notin best
    IN order[first]

\* pipeline.py 38-59; the text is kept as it is (56); orders[i] is the
\* iteration order of the set built for segment i.
pipeline_map_speakers_to_segments(segs, tracks, orders) ==
    [i \in 1..Len(segs) |->
        LET labels == overlapping_labels(segs[i], tracks)
        IN [start |-> segs[i].start,
            end |-> segs[i].end,
            text |-> segs[i].text,
            speaker |-> IF labels # <<>> THEN most_frequent(labels, orders[i])
                        ELSE "Unknown"]]

\* ---------------------------------------------------------- the stage cache
\* The step names of run_full_pipeline, in the order of its steps 2 to 8.
StageNames ==
    <<"whisper_raw", "diarization_raw", "mapped_segments", "audio_features",
      "text_embeddings", "text_emotions", "speech_emotions", "keywords">>
Stages == {StageNames[i] : i \in 1..Len(StageNames)}
StageIndex(step) == CHOOSE i \in 1..Len(StageNames) : StageNames[i] = step

\* ------------------------------------------------------------------- JSON
\* The type of a Python value, which json.dump reads off the object: a str,
\* a number, a list with the type of its items, or a dict with string keys,
\* whose members have the types MemberType gives.
PyStr == [t |-> "str"]
PyNum == [t |-> "num"]
PyList(item) == [t |-> "list", item |-> item]
PyDict == [t |-> "dict"]

\* The types of the members of the dicts the pipeline saves, by key.
MemberType(key) ==
    CASE key \in {"start", "end"} -> PyNum
      [] key = "segments" -> PyList(PyDict)
      [] key = "rms_energy" -> PyList(PyNum)
      [] OTHER -> PyStr

\* The type of the value a step saves (576, 593, 611, 630, 643, 656, 669,
\* 682).
PayloadType(step_name) ==
    CASE step_name = "whisper_raw" -> PyDict
      [] step_name \in {"text_emotions", "speech_emotions"} -> PyList(PyStr)
      [] step_name = "keywords" -> PyList(PyList(PyStr))
      [] OTHER -> PyList(PyDict)

\* json.dump (128): the JSON text of a value, kept as the tree of its
\* strings, numbers, arrays and objects.
RECURSIVE json_encode(_, _)
json_encode(type, value) ==
    CASE type.t = "str" -> [j |-> "string", chars |-> value]
      [] type.t = "num" -> [j |-> "number", digits |-> value]
      [] type.t = "list" ->
             [j |-> "array",
              items |-> [i \in 1..Len(value) |-> json_encode(type.item, value[i])]]
      [] OTHER ->
             [j |-> "object",
              members |-> [k \in DOMAIN value |-> json_encode(MemberType(k), value[k])]]

\* json.load (141): the value of a JSON text: a str, a number, a list or a
\* dict.
RECURSIVE json_decode(_)
json_decode(text) ==
    CASE text.j = "string" -> text.chars
      [] text.j = "number" -> text.digits
      [] text.j = "array" -> [i \in 1..Len(text.items) |-> json_decode(text.items[i])]
      [] OTHER -> [k \in DOMAIN text.members |-> json_decode(text.members[k])]

\* A file of the output directory: not there, there but not JSON (truncated
\* or damaged), or a JSON text.
Absent == [kind |-> "absent"]
Corrupt == [kind |-> "corrupt"]
json_dump(data, type) == [kind |-> "json", text |-> json_encode(type, data)]
json_load(file) == json_decode(file.text)

\* What a function returns: None, or a value.
NoneValue == [is_none |-> TRUE]
Value(data) == [is_none |-> FALSE, data |-> data]

\* ------------------------------------------------------------ the records
\* A run is known by its output directory and file name: that of the calls
\* followed here, and another one.
ThisRun == [output_dir |-> "out", filename_base |-> "a"]
OtherRun == [output_dir |-> "out2", filename_base |-> "b"]

\* A variant that builds the path from the step name alone.
record_path_of_step_alone(output_dir, filename_base, step_name) ==
    <<"", step_name \o ".json">>

\* pipeline2.py 125, 137: os.path.join(output_dir,
\* f"{filename_base}_{step_name}.json"), as the directory and the file name.
record_path(output_dir, filename_base, step_name) ==
    <<output_dir, filename_base \o "_" \o step_name \o ".json">>

\* The paths of the records of the two runs.
ThisPath == [s \in Stages |-> record_path(ThisRun.output_dir, ThisRun.filename_base, s)]
OtherPath == [s \in Stages |-> record_path(OtherRun.output_dir, OtherRun.filename_base, s)]
RecordPaths == {ThisPath[s] : s \in Stages} \cup {OtherPath[s] : s \in Stages}

\* The record a path is the file of: a record of the run followed, or else
\* of the other run.
RecordAt ==
    [p \in RecordPaths |->
        IF \E s \in Stages : ThisPath[s] = p
        THEN [run |-> "this", step |-> CHOOSE s \in Stages : ThisPath[s] = p]
        ELSE [run |-> "other", step |-> CHOOSE s \in Stages : OtherPath[s] = p]]

\* The file at a path: cache holds the files of the run followed,
\* other_records those of the other run.
file_at(p) ==
    IF RecordAt[p].run = "this" THEN cache[RecordAt[p].step]
    ELSE other_records[RecordAt[p].step]

\* The files of the records, by path.
record_files == [p \in RecordPaths |-> file_at(p)]

\* How a read of a record that exists can end: done, or open or read raised.
ReadOutcomes(step_name) ==
    IF file_at(ThisPath[step_name]) # Absent /\ faults < MaxFaults
    THEN {"ok", "read_failed"}
    ELSE {"ok"}

\* The steps whose record could not be opened or read in the call.
unread_after(step_name, rd) ==
    IF rd = "read_failed" THEN unread \cup {step_name} ELSE unread

\* The faults the read of the step that is running counts for.
read_cost == IF unread' # unread THEN 1 ELSE 0

\* A variant that never finds a record (no return of the data read).
load_nothing(step_name, rd) == NoneValue

\* A variant that takes a record as stale once an earlier step of the call
\* was computed.
load_unless_upstream_recomputed(step_name, rd) ==
    IF cache[step_name].kind = "json" /\ rd = "ok" /\ computed = {}
    THEN Value(json_load(cache[step_name]))
    ELSE NoneValue

\* pipeline2.py 135-150: the value of the file at the path of the record;
\* None when the file is not there (138, 150), cannot be decoded (144-146)
\* or cannot be opened or read (147-149).
load_intermediate_json(step_name, rd) ==
    LET f == file_at(ThisPath[step_name])
    IN IF f.kind = "json" /\ rd = "ok" THEN Value(json_load(f)) ELSE NoneValue

\* How a write of a file can end: done, refused at open (the file is as it
\* was), or broken off after open truncated the file.
IoOutcomes ==
    IF faults + read_cost < MaxFaults THEN {"ok", "open_failed", "write_failed"}
    ELSE {"ok"}

\* A variant that builds the file name without the step name, so that every
\* record goes to one file.
save_under_one_name(data, step_name, io) ==
    CASE io = "ok" -> [cache EXCEPT !["keywords"] = json_dump(data, PayloadType(step_name))]
      [] io = "write_failed" -> [cache EXCEPT !["keywords"] = Corrupt]
      [] OTHER -> cache

\* A variant that leaves a file that already exists alone.
save_unless_exists(data, step_name, io) ==
    CASE io = "ok" /\ cache[step_name].kind = "absent" ->
             [cache EXCEPT ![step_name] = json_dump(data, PayloadType(step_name))]
      [] io = "write_failed" -> [cache EXCEPT ![step_name] = Corrupt]
      [] OTHER -> cache

\* pipeline2.py 125-133: the files of the records after the call: open(..,
\* "w") and json.dump on the one path of the record; an error is caught and
\* printed (131-133).
files_after_save(data, step_name, io) ==
    CASE io = "ok" ->
             [record_files EXCEPT ![ThisPath[step_name]] =
                                      json_dump(data, PayloadType(step_name))]
      [] io = "write_failed" -> [record_files EXCEPT ![ThisPath[step_name]] = Corrupt]
      [] OTHER -> record_files

\* pipeline2.py 122-133: the records of the run after the call.
save_intermediate_json(data, step_name, io) ==
    LET after == files_after_save(data, step_name, io)
    IN [s \in Stages |-> after[ThisPath[s]]]

\* The records the other run starts with.
OtherRecords == [s \in Stages |-> json_dump(<<>>, PayloadType("keywords"))]

\* pipeline2.py 122-133: the records of the other run after the call.
other_records_after_save(data, step_name, io) ==
    LET after == files_after_save(data, step_name, io)
    IN [s \in Stages |-> after[OtherPath[s]]]

\* The values a step's compute function has returned, with one more.
observe(step_name, data) == [observed EXCEPT ![step_name] = @ \cup {data}]

\* The last write of a record: none yet, one that wrote data, or one that broke
\* off; a write refused at open wrote nothing.
NeverWritten == [status |-> "never"]
write_record(data, step_name, io) ==
    CASE io = "ok" -> [last_write EXCEPT ![step_name] = [status |-> "ok", payload |-> data]]
      [] io = "write_failed" -> [last_write EXCEPT ![step_name] = [status |-> "failed"]]
      [] OTHER -> last_write

\* ------------------------------------------------------- the model getters
ModelNames == {"whisper", "pyannote", "sentence_transformer", "text_emotion",
               "ser", "yake"}

\* The getter a step's compute function calls (199, 218, 341, 361, 384, 460);
\* map_speakers_to_segments and extract_audio_features call none.
ModelOf(step_name) ==
    CASE step_name = "whisper_raw" -> "whisper"
      [] step_name = "diarization_raw" -> "pyannote"
      [] step_name = "text_embeddings" -> "sentence_transformer"
      [] step_name = "text_emotions" -> "text_emotion"
      [] step_name = "speech_emotions" -> "ser"
      [] step_name = "keywords" -> "yake"
      [] OTHER -> "none"

\* The getters that go on, inside their try, after the global is assigned:
\* _pyannote_pipeline.to(...) (66) and _ser_classifier.to(DEVICE) (106).
MovedToDevice == {"pyannote", "ser"}

\* pipeline2.py 47-119: how a call of a getter can end. With the global set
\* it returns it. Otherwise get_pyannote_pipeline first raises ValueError on
\* an empty token (60-61); the constructor returns and the global is set, or
\* it raises and the global stays None; for the getters of MovedToDevice the
\* move can raise after the global was set.
GetterOutcomes(name) ==
    IF models[name] # "unset"
    THEN {[raised |-> FALSE, state |-> models[name], built |-> 0, cost |-> 0]}
    ELSE IF name = "pyannote" /\ hf_token # "set"
    THEN {[raised |-> TRUE, state |-> "unset", built |-> 0, cost |-> 0]}
    ELSE {[raised |-> FALSE, state |-> "ready", built |-> 1, cost |-> 0]}
         \cup (IF faults + read_cost < MaxFaults
               THEN {[raised |-> TRUE, state |-> "unset", built |-> 0, cost |-> 1]}
               ELSE {})
         \cup (IF faults + read_cost < MaxFaults /\ name \in MovedToDevice
               THEN {[raised |-> TRUE, state |-> "partial", built |-> 1, cost |-> 1]}
               ELSE {})

\* The globals after a call of the getter that ended g.
get_model(name, g) ==
    /\ models' = [models EXCEPT ![name] = g.state]
    /\ constructed' = [constructed EXCEPT ![name] = @ + g.built]
    /\ last_get' = [last_get EXCEPT ![name] = IF g.raised THEN "raised" ELSE "returned"]

\* The compute function of a step got its model (or needs none).
getter_returns(step_name) ==
    IF ModelOf(step_name) = "none"
    THEN UNCHANGED getters
    ELSE \E g \in GetterOutcomes(ModelOf(step_name)) :
             ~g.raised /\ get_model(ModelOf(step_name), g)

\* ------------------------------------------------------- the collaborators
AudioFile == "a.mp3"
Seg(s, e) == [start |-> s, end |-> e, text |-> TextAt(s)]
Turn(k, s, e) == [speaker |-> k, start |-> s, end |-> e]

\* What model.transcribe can return: two segments, one segment, no segment,
\* and a segment without its timestamps.
WhisperResults ==
    {[text |-> " hi yo ", segments |-> <<Seg(0, 1), Seg(1, 2)>>],
     [text |-> " hi", segments |-> <<Seg(0, 2)>>],
     [text |-> "", segments |-> <<>>],
     [text |-> "ok", segments |-> <<[text |-> "ok"]>>]}

\* What the diarizer's tracks can be (pipeline2.py 592): two speakers one
\* after the other, and two speakers on the same time span.
DiarizationResults ==
    {<<Turn("A", 0, 1), Turn("B", 1, 2)>>,
     <<Turn("A", 0, 2), Turn("B", 0, 2)>>}

\* The collaborators' values for one segment or text.
AudioFeature(seg) == [rms_energy |-> <<seg.start, seg.end>>]
Embedding(text) == [vector |-> text]
TextLabel(text) == IF text = "hi" THEN "joy" ELSE "neutral"
SpeechLabel(seg) == IF seg.start = 0 THEN "hap" ELSE "neu"
YakeKeywords(text) == <<text>>

\* The resolution of the time grid: the grid units one sample of the audio
\* lasts (the sampling period 1/sr, 272, in grid units).
TicksPerSample == 2

\* int(x) of a quotient: truncation toward zero.
int_div(a, b) == IF a >= 0 THEN a \div b ELSE -((-a) \div b)

\* pipeline2.py 297-298: int(seg['start'] * sr), int(seg['end'] * sr).
to_sample(t) == int_div(t, TicksPerSample)

\* pipeline2.py 301-303: np.zeros(13), np.zeros(12) and 0.0.
ZeroFeatures == [rms_energy |-> <<0, 0>>]

\* The bounds of y[a:b] for len(y) = n: a negative index counts from the
\* end, and both are clamped to 0..n.
slice_index(a, n) == IF a < 0 THEN Max2(n + a, 0) ELSE Min2(a, n)

\* pipeline2.py 309: y[start_sample:min(end_sample, len(y))], as the span of
\* samples it holds (lo = hi when it is empty).
segment_audio(start_sample, end_sample, n) ==
    LET lo == slice_index(start_sample, n)
        hi == slice_index(Min2(end_sample, n), n)
    IN [start |-> lo, end |-> Max2(lo, hi)]

\* pipeline2.py 305: the range test.
out_of_range(seg, n) ==
    \/ to_sample(seg.start) >= n
    \/ to_sample(seg.end) <= 0
    \/ to_sample(seg.start) >= to_sample(seg.end)

\* pipeline2.py 297-328: the record of one segment.
segment_features(seg, n) ==
    IF out_of_range(seg, n)
    THEN ZeroFeatures
    ELSE LET audio == segment_audio(to_sample(seg.start), to_sample(seg.end), n)
         IN IF audio.end - audio.start > 0
            THEN AudioFeature(audio)
            ELSE ZeroFeatures

\* A variant that leaves out the segments it has no audio for.
extract_audio_features_skipping(segments, n) ==
    SelectSeq([i \in 1..Len(segments) |-> segment_features(segments[i], n)],
              LAMBDA f : f # ZeroFeatures)

\* pipeline2.py 295-328: one feature record per segment, n = len(y).
extract_audio_features(segments, n) ==
    [i \in 1..Len(segments) |-> segment_features(segments[i], n)]

\* pipeline2.py 311-324: the segments librosa is called for; a call of
\* librosa.feature that raises is not caught in the function.
calls_librosa(segments, n) ==
    {i \in 1..Len(segments) :
        /\ ~out_of_range(segments[i], n)
        /\ LET audio == segment_audio(to_sample(segments[i].start),
                                      to_sample(segments[i].end), n)
           IN audio.end - audio.start > 0}

\* The WAV an export that broke off leaves: the first samples of the
\* recording.
CutShort(rec) == rec \o "_cut"

\* pipeline2.py 289: len(y) of the trimmed WAV made from a recording, and of
\* one that was cut short.
WavSamples(wav) ==
    CASE wav = "r1" -> 1
      [] wav = "r2" -> 2
      [] wav = CutShort("r2") -> 1
      [] OTHER -> 0

\* pipeline2.py 331-348.
get_text_embeddings(txts) == [i \in 1..Len(txts) |-> Embedding(txts[i])]

\* pipeline2.py 351-369.
run_text_emotion_analysis(txts) == [i \in 1..Len(txts) |-> TextLabel(txts[i])]

\* How classifier.classify_batch can end for one segment (431-443): it
\* returns a label, it returns no label, or it raises.
ClassifyOutcomes == {"label", "no_label", "raises"}

\* pipeline2.py 412-444: the label of one segment, n = len(speech_tensor);
\* the range test (416) and the slice (420) are those of
\* extract_audio_features, with to_sample for 412-413.
segment_emotion(seg, n, outcome) ==
    IF out_of_range(seg, n)
    THEN "unknown"
    ELSE LET audio == segment_audio(to_sample(seg.start), to_sample(seg.end), n)
         IN IF audio.end - audio.start = 0
            THEN "unknown"
            ELSE CASE outcome = "label" -> SpeechLabel(audio)
                   [] outcome = "no_label" -> "unknown_no_label"
                   [] OTHER -> "unknown"

\* pipeline2.py 416-431: the segments classifier.classify_batch is called
\* for: those in range whose slice is not empty, as for librosa.
calls_classifier(segments, n) == calls_librosa(segments, n)

\* A variant whose try encloses the loop: the first classification that
\* raises ends it, and the labels found so far are returned.
RECURSIVE run_speech_emotion_recognition_stopping(_, _, _)
run_speech_emotion_recognition_stopping(segments, n, outcomes) ==
    IF segments = <<>> THEN <<>>
    ELSE IF /\ Head(outcomes) = "raises"
            /\ segment_emotion(Head(segments), n, "label") # "unknown"
         THEN <<>>
         ELSE <<segment_emotion(Head(segments), n, Head(outcomes))>>
              \o run_speech_emotion_recognition_stopping(Tail(segments), n, Tail(outcomes))

\* pipeline2.py 411-446: one label per segment; outcomes[i] is how the
\* classification of segment i ends if it is called.
run_speech_emotion_recognition(segments, n, outcomes) ==
    [i \in 1..Len(segments) |-> segment_emotion(segments[i], n, outcomes[i])]

\* pipeline2.py 449-470.
extract_keywords(txts) == [i \in 1..Len(txts) |-> YakeKeywords(txts[i])]

\* ------------------------------------------------- pyannote's Annotation
\* An Annotation is kept as its tracks in itertracks order: sorted by
\* (start, end). annotation[Segment(start, end)] = speaker sets the track "_"
\* of the segment: it replaces the track of an equal segment, and an empty
\* segment is not added.
track_before(a, b) == a.start < b.start \/ (a.start = b.start /\ a.end < b.end)

annotation_setitem(ann, item) ==
    IF item.end <= item.start THEN ann
    ELSE LET same == {i \in 1..Len(ann) :
                        ann[i].start = item.start /\ ann[i].end = item.end}
             k == Cardinality({i \in 1..Len(ann) : track_before(ann[i], item)})
         IN IF same # {}
            THEN [i \in 1..Len(ann) |-> IF i \in same THEN item ELSE ann[i]]
            ELSE SubSeq(ann, 1, k) \o <<item>> \o SubSeq(ann, k + 1, Len(ann))

\* pipeline2.py 598-599.
RECURSIVE reconstruct(_, _)
reconstruct(ann, list) ==
    IF list = <<>> THEN ann
    ELSE reconstruct(annotation_setitem(ann, Head(list)), Tail(list))

\* ------------------------------------------------------------- aggregation
\* pipeline2.py 692-693.
min_len(ds, af, te, tm, sm, kw) ==
    CHOOSE n \in {Len(ds), Len(af), Len(te), Len(tm), Len(sm), Len(kw)} :
        \A m \in {Len(ds), Len(af), Len(te), Len(tm), Len(sm), Len(kw)} : n <= m

\* A variant that makes a record for every aligned segment and fills what a
\* field sequence lacks with None.
final_segments_padded(ds, af, te, tm, sm, kw) ==
    [i \in 1..Len(ds) |->
        [start |-> ds[i].start, end |-> ds[i].end,
         text |-> ds[i].text, speaker |-> ds[i].speaker,
         audio_features |-> IF i <= Len(af) THEN af[i] ELSE [rms_energy |-> <<>>],
         text_embedding |-> IF i <= Len(te) THEN te[i] ELSE [vector |-> "None"],
         text_emotion |-> IF i <= Len(tm) THEN tm[i] ELSE "None",
         speech_emotion |-> IF i <= Len(sm) THEN sm[i] ELSE "None",
         keywords |-> IF i <= Len(kw) THEN kw[i] ELSE <<>>]]

\* pipeline2.py 700-704: the keys the aggregation sets.
EnrichedKeys == {"audio_features", "text_embedding", "text_emotion", "speech_emotion",
                 "keywords"}

\* A variant that reads the keywords one place too early (index i - 1, which
\* for the first record is the last element).
final_segments_shifted(ds, af, te, tm, sm, kw) ==
    [i \in 1..min_len(ds, af, te, tm, sm, kw) |->
        [k \in DOMAIN ds[i] \cup EnrichedKeys |->
            CASE k = "audio_features" -> af[i]
              [] k = "text_embedding" -> te[i]
              [] k = "text_emotion" -> tm[i]
              [] k = "speech_emotion" -> sm[i]
              [] k = "keywords" -> kw[IF i = 1 THEN Len(kw) ELSE i - 1]
              [] OTHER -> ds[i][k]]]

\* --- the dicts of the lists, as Python keeps them: by reference
\* A heap gives every reference its dict; the dicts of a list of n records
\* are at the references 1..n.
heap_of(list) == [r \in 1..Len(list) |-> list[r]]

\* The heap with the dict d at reference r.
heap_with(heap, r, d) == [x \in DOMAIN heap \cup {r} |-> IF x = r THEN d ELSE heap[x]]

\* A variant without the copy: the name is bound to dict i itself.
same_dict(n, i) == i

\* dict.copy() (699, 716) of dict i of a list of n: a new dict, at a
\* reference no dict of the list has.
dict_copy(n, i) == n + i

\* pipeline2.py 700-704: the dict with the five keys set.
with_enriched_keys(d, i, af, te, tm, sm, kw) ==
    [k \in DOMAIN d \cup EnrichedKeys |->
        CASE k = "audio_features" -> af[i]
          [] k = "text_embedding" -> te[i]
          [] k = "text_emotion" -> tm[i]
          [] k = "speech_emotion" -> sm[i]
          [] k = "keywords" -> kw[i]
          [] OTHER -> d[k]]

\* pipeline2.py 698-705: the heap after the loop: pass i binds seg_data to
\* the copy of segment i (699) and sets the five keys on it (700-704).
heap_after_combine(ds, af, te, tm, sm, kw) ==
    LET n == min_len(ds, af, te, tm, sm, kw)
        RECURSIVE pass(_, _)
        pass(heap, i) ==
            IF i > n THEN heap
            ELSE LET seg_data == dict_copy(Len(ds), i)
                     copied == heap_with(heap, seg_data, heap[i])
                 IN pass(heap_with(copied, seg_data,
                                   with_enriched_keys(copied[seg_data], i,
                                                      af, te, tm, sm, kw)),
                         i + 1)
    IN pass(heap_of(ds), 1)

\* pipeline2.py 690-705: final_segments: the dicts the loop appended (705),
\* one for each of the first min_len segments.
final_segments(ds, af, te, tm, sm, kw) ==
    LET heap == heap_after_combine(ds, af, te, tm, sm, kw)
    IN [i \in 1..min_len(ds, af, te, tm, sm, kw) |-> heap[dict_copy(Len(ds), i)]]

\* pipeline2.py 698-705: the aligned segments after the aggregation: the
\* dicts of diarized_segments as the loop left them.
diarized_segments_after_combine(ds, af, te, tm, sm, kw) ==
    LET heap == heap_after_combine(ds, af, te, tm, sm, kw)
    IN [i \in 1..Len(ds) |-> heap[i]]

\* pipeline2.py 717-718: d.pop(key, None) for the two heavy keys.
without_heavy_keys(d) ==
    [k \in DOMAIN d \ {"audio_features", "text_embedding"} |-> d[k]]

\* pipeline2.py 714-719: the heap after the loop over final_segments: each
\* pass binds simplified_segment to the copy of a record (716) and pops the
\* two keys from it (717-718).
heap_after_simplify(fs) ==
    LET RECURSIVE pass(_, _)
        pass(heap, i) ==
            IF i > Len(fs) THEN heap
            ELSE LET simplified_segment == dict_copy(Len(fs), i)
                     copied == heap_with(heap, simplified_segment, heap[i])
                 IN pass(heap_with(copied, simplified_segment,
                                   without_heavy_keys(copied[simplified_segment])),
                         i + 1)
    IN pass(heap_of(fs), 1)

\* A variant that keeps the embedding in the simplified records.
simplified_segments_with_embedding(fs) ==
    [i \in 1..Len(fs) |->
        [start |-> fs[i].start, end |-> fs[i].end,
         text |-> fs[i].text, speaker |-> fs[i].speaker,
         text_embedding |-> fs[i].text_embedding,
         text_emotion |-> fs[i].text_emotion,
         speech_emotion |-> fs[i].speech_emotion,
         keywords |-> fs[i].keywords]]

\* pipeline2.py 714-719: simplified_segments: the dicts the loop appended
\* (719).
simplified_segments(fs) ==
    LET heap == heap_after_simplify(fs)
    IN [i \in 1..Len(fs) |-> heap[dict_copy(Len(fs), i)]]

\* pipeline2.py 714-719: the records of the full document after the
\* simplified ones were made: the dicts of final_segments as the loop left
\* them.
final_segments_after_simplify(fs) ==
    LET heap == heap_after_simplify(fs)
    IN [i \in 1..Len(fs) |-> heap[i]]

\* pipeline2.py 708-712 and 721-725.
output_data(transcript, segs) ==
    [kind |-> "document", audio_file |-> AudioFile,
     full_transcript |-> Strip(transcript), segments |-> segs]

\* What run_full_pipeline has returned: nothing yet, {} or the document; or
\* how it ended without returning: with the exception os.makedirs raised.
NotReturned == [kind |-> "none"]
EmptyDict == [kind |-> "empty"]
RaisedOut(exception) == [kind |-> "raised", exception |-> exception]
NoFinal == [kind |-> "none"]

\* ------------------------------------------------------- run_full_pipeline
\* A variant of the step order that goes from transcription straight to the
\* mapping of speakers.
NextStep_skipping_diarization(step) ==
    CASE step = "preprocess" -> "step2"
      [] step = "whisper_raw" -> "step4"
      [] step = "diarization_raw" -> "step4"
      [] step = "mapped_segments" -> "step5"
      [] step = "audio_features" -> "step6"
      [] step = "text_embeddings" -> "step7a"
      [] step = "text_emotions" -> "step7b"
      [] step = "speech_emotions" -> "step8"
      [] OTHER -> "combine"

\* The step that follows a step.
NextStep(step) ==
    CASE step = "preprocess" -> "step2"
      [] step = "whisper_raw" -> "step3"
      [] step = "diarization_raw" -> "step4"
      [] step = "mapped_segments" -> "step5"
      [] step = "audio_features" -> "step6"
      [] step = "text_embeddings" -> "step7a"
      [] step = "text_emotions" -> "step7b"
      [] step = "speech_emotions" -> "step8"
      [] OTHER -> "combine"

\* A variant of the except handlers that still writes the final files of what
\* there is before the call returns.
stop_after_publishing(step) ==
    /\ pc' = "combine"
    /\ result' = result
    /\ stopped' = step

\* The except handlers of the steps (pipeline2.py 552-554, 582-584, 601-603,
\* 616-618, 633-635, 646-648, 659-661, 672-674, 685-687): "Pipeline stopped
\* at Step ...", return {}.
stop_pipeline(step) ==
    /\ pc' = "idle"
    /\ result' = EmptyDict
    /\ stopped' = step

\* A variant that writes the record it has just read back to its file.
step_loaded_rewriting(step_name) ==
    /\ pc' = NextStep(step_name)
    /\ loaded_steps' = loaded_steps \cup {step_name}
    /\ saved' = [saved EXCEPT ![step_name] = Append(@, "ok")]
    /\ UNCHANGED <<files, result, start_cache, computed, stopped, runs, faults,
                   last_write, observed, other_records, getters>>

\* The step found its record: nothing is computed and nothing is written.
step_loaded(step_name) ==
    /\ pc' = NextStep(step_name)
    /\ loaded_steps' = loaded_steps \cup {step_name}
    /\ UNCHANGED <<files, result, start_cache, computed, saved, stopped, runs, faults,
                   last_write, observed, other_records, getters>>

\* The faults a write that ended io counts for.
io_cost(io) == IF io = "ok" THEN 0 ELSE 1

\* A variant that keeps the computed value in memory only.
step_computed_unsaved(data, step_name, io) ==
    /\ computed' = computed \cup {step_name}
    /\ faults' = faults + read_cost + io_cost(io)
    /\ pc' = NextStep(step_name)
    /\ getter_returns(step_name)
    /\ UNCHANGED <<files, saved, last_write, observed, other_records, result, start_cache, stopped, runs,
                   loaded_steps>>

\* The step computed data and called save_intermediate_json, which ended io.
step_computed(data, step_name, io) ==
    /\ cache' = save_intermediate_json(data, step_name, io)
    /\ computed' = computed \cup {step_name}
    /\ saved' = [saved EXCEPT ![step_name] = Append(@, io)]
    /\ faults' = faults + read_cost + io_cost(io)
    /\ pc' = NextStep(step_name)
    /\ last_write' = write_record(data, step_name, io)
    /\ observed' = observe(step_name, data)
    /\ other_records' = other_records_after_save(data, step_name, io)
    /\ getter_returns(step_name)
    /\ UNCHANGED <<wav_exists, saved_final, result, start_cache, stopped, runs, loaded_steps>>

\* A variant that removes the records of the output directory when a step
\* fails.
step_raised_clearing(step_name) ==
    /\ faults + read_cost < MaxFaults
    /\ faults' = faults + read_cost + 1
    /\ computed' = computed \cup {step_name}
    /\ stop_pipeline(step_name)
    /\ cache' = [s \in Stages |-> Absent]
    /\ UNCHANGED <<wav_exists, saved_final, start_cache, saved, runs, loaded_steps,
                   last_write, observed, other_records, getters>>

\* The step's compute function raised: its getter did, or the getter returned
\* and the collaborator raised.
step_raised(step_name) ==
    /\ computed' = computed \cup {step_name}
    /\ stop_pipeline(step_name)
    /\ \/ /\ ModelOf(step_name) # "none"
          /\ \E g \in GetterOutcomes(ModelOf(step_name)) :
                /\ g.raised
                /\ get_model(ModelOf(step_name), g)
                /\ faults' = faults + read_cost + g.cost
       \/ /\ faults + read_cost < MaxFaults
          /\ faults' = faults + read_cost + 1
          /\ getter_returns(step_name)
    /\ UNCHANGED <<files, start_cache, saved, runs, loaded_steps, last_write, observed, other_records>>

texts_of(segments) == [i \in 1..Len(segments) |-> segments[i].text]

\* The recordings a call can be given under the one file name.
Recordings == {"r1", "r2"}

\* No file was ever put under output_dir.
OutputDirHoldsNothing ==
    /\ ~wav_exists
    /\ saved_final = NoFinal
    /\ \A s \in Stages : cache[s] = Absent

\* pipeline2.py 166: what os.makedirs(output_dir, exist_ok=True) can raise.
\* While nothing was put under output_dir it can be a regular file
\* (FileExistsError), lie below one (NotADirectoryError), be a path that may
\* not be made (PermissionError) or that no file system takes (OSError), or
\* hold a NUL (ValueError); the empty path, which names the working
\* directory to os.path.join and os.path.exists, raises FileNotFoundError
\* whatever the directory holds.
MakedirsErrors ==
    IF OutputDirHoldsNothing
    THEN {"FileExistsError", "NotADirectoryError", "PermissionError",
          "FileNotFoundError", "OSError", "ValueError"}
    ELSE {"FileNotFoundError"}

\* pipeline2.py 166, 551: os.makedirs is before the try of preprocess_audio
\* and step 1 is in no try of run_full_pipeline: the exception leaves the
\* call, which returns nothing.
raise_out_of_call ==
    /\ pc' = "idle"
    /\ \E exception \in MakedirsErrors : result' = RaisedOut(exception)
    /\ stopped' = "raised"

\* pipeline2.py 545-568: a call begins; step 1 keeps an existing trimmed WAV
\* whatever it was made from (169-171), or makes it, or fails and returns
\* None (180-185, 552-554), or raises at os.makedirs (166). When it fails,
\* the input was not read (175) and there is no WAV, or export (177) broke
\* off after it had opened the WAV for writing: the handlers (180-185) do not
\* remove the file, which holds the samples written so far.
Step1_Preprocess ==
    /\ pc = "idle"
    /\ UNCHANGED avars
    /\ runs < MaxRuns
    /\ runs' = runs + 1
    /\ recording' \in Recordings
    /\ prev_run' = [ended |-> runs > 0, stopped |-> stopped,
                    completed |-> (computed \cup loaded_steps) \ {stopped}]
    /\ loaded_steps' = {}
    /\ unread' = {}
    /\ published' = <<>>
    /\ UNCHANGED <<hf_token, getters, last_write, other_records>>
    /\ observed' = observe("preprocess", recording')
    /\ start_cache' = cache
    /\ computed' = {}
    /\ saved' = [s \in Stages |-> <<>>]
    /\ whisper_result' = [text |-> "", segments |-> <<>>]
    /\ diarization_list' = <<>>
    /\ diarization_reconstructed' = <<>>
    /\ diarized_segments' = <<>>
    /\ texts' = <<>>
    /\ audio_features' = <<>>
    /\ text_embeddings' = <<>>
    /\ text_emotions' = <<>>
    /\ speech_emotions' = <<>>
    /\ keywords' = <<>>
    /\ UNCHANGED <<cache, saved_final>>
    /\ \/ /\ wav_exists
          /\ pc' = "step2" /\ result' = NotReturned /\ stopped' = "none"
          /\ UNCHANGED <<wav_exists, wav_source, faults>>
       \/ /\ ~wav_exists
          /\ wav_exists' = TRUE
          /\ wav_source' = recording'
          /\ pc' = "step2" /\ result' = NotReturned /\ stopped' = "none"
          /\ UNCHANGED faults
       \/ /\ ~wav_exists
          /\ faults < MaxFaults
          /\ faults' = faults + 1
          /\ stop_pipeline("preprocess")
          /\ \/ UNCHANGED <<wav_exists, wav_source>>
             \/ /\ wav_exists' = TRUE
                /\ wav_source' = CutShort(recording')
       \/ /\ raise_out_of_call
          /\ UNCHANGED <<wav_exists, wav_source, faults>>

\* pipeline2.py 570-584.
Step2_Transcribe ==
    /\ pc = "step2"
    /\ UNCHANGED <<avars, run_frame>>
    /\ \E rd \in ReadOutcomes("whisper_raw") :
       unread' = unread_after("whisper_raw", rd) /\
       LET loaded == load_intermediate_json("whisper_raw", rd)
       IN \/ /\ ~loaded.is_none
             /\ whisper_result' = loaded.data
             /\ texts' = texts_of(loaded.data.segments)
             /\ step_loaded("whisper_raw")
          \/ /\ loaded.is_none
             /\ \E w \in WhisperResults, io \in IoOutcomes :
                   /\ whisper_result' = w
                   /\ texts' = texts_of(w.segments)
                   /\ step_computed(w, "whisper_raw", io)
          \/ /\ loaded.is_none
             /\ step_raised("whisper_raw")
             /\ UNCHANGED <<whisper_result, texts>>
    /\ UNCHANGED <<diarization_list, diarization_reconstructed, diarized_segments,
                   audio_features, text_embeddings, text_emotions, speech_emotions,
                   keywords>>

\* pipeline2.py 586-603.
Step3_Diarize ==
    /\ pc = "step3"
    /\ UNCHANGED <<avars, run_frame>>
    /\ \E rd \in ReadOutcomes("diarization_raw") :
       unread' = unread_after("diarization_raw", rd) /\
       LET loaded == load_intermediate_json("diarization_raw", rd)
       IN \/ /\ ~loaded.is_none
             /\ diarization_list' = loaded.data
             /\ diarization_reconstructed' = reconstruct(<<>>, loaded.data)
             /\ step_loaded("diarization_raw")
          \/ /\ loaded.is_none
             /\ \E d \in DiarizationResults, io \in IoOutcomes :
                   /\ diarization_list' = d
                   /\ diarization_reconstructed' = reconstruct(<<>>, d)
                   /\ step_computed(d, "diarization_raw", io)
          \/ /\ loaded.is_none
             /\ step_raised("diarization_raw")
             /\ UNCHANGED <<diarization_list, diarization_reconstructed>>
    /\ UNCHANGED <<whisper_result, diarized_segments, texts, audio_features,
                   text_embeddings, text_emotions, speech_emotions, keywords>>

\* A variant without the test of the aligned segments: the call goes on to
\* step 5.
go_on_without_segments ==
    /\ pc' = "step5"
    /\ result' = result
    /\ stopped' = stopped

\* pipeline2.py 620-622: no aligned segment: "No valid segments found after
\* mapping", return {}.
return_no_segments ==
    /\ pc' = "idle"
    /\ result' = EmptyDict
    /\ stopped' = "no_segments"

\* seg['start'] raises KeyError for a segment without timestamps (242).
map_raises(segments) == \E i \in 1..Len(segments) : "start" \notin DOMAIN segments[i]

\* pipeline2.py 605-622.
Step4_MapSpeakers ==
    /\ pc = "step4"
    /\ UNCHANGED <<avars, run_frame>>
    /\ \E rd \in ReadOutcomes("mapped_segments") :
       unread' = unread_after("mapped_segments", rd) /\
       LET loaded == load_intermediate_json("mapped_segments", rd)
       IN \/ /\ ~loaded.is_none
             /\ diarized_segments' = loaded.data
             /\ texts' = texts_of(loaded.data)
             /\ IF loaded.data = <<>>
                THEN /\ return_no_segments
                     /\ loaded_steps' = loaded_steps \cup {"mapped_segments"}
                     /\ UNCHANGED <<files, start_cache, computed, saved, runs, faults,
                                    last_write, observed, other_records, getters>>
                ELSE step_loaded("mapped_segments")
          \/ /\ loaded.is_none
             /\ ~map_raises(whisper_result.segments)
             /\ \E io \in IoOutcomes :
                   LET mapped == map_speakers_to_segments(whisper_result.segments,
                                                          diarization_reconstructed)
                   IN /\ diarized_segments' = mapped
                      /\ texts' = texts_of(mapped)
                      /\ IF mapped = <<>>
                         THEN /\ cache' = save_intermediate_json(mapped, "mapped_segments", io)
                              /\ computed' = computed \cup {"mapped_segments"}
                              /\ saved' = [saved EXCEPT !["mapped_segments"] = Append(@, io)]
                              /\ faults' = faults + read_cost + io_cost(io)
                              /\ return_no_segments
                              /\ last_write' = write_record(mapped, "mapped_segments", io)
                              /\ observed' = observe("mapped_segments", mapped)
                              /\ other_records' = other_records_after_save(mapped, "mapped_segments", io)
                              /\ UNCHANGED <<wav_exists, saved_final, start_cache, runs,
                                             loaded_steps, getters>>
                         ELSE step_computed(mapped, "mapped_segments", io)
          \/ /\ loaded.is_none
             /\ map_raises(whisper_result.segments)
             /\ computed' = computed \cup {"mapped_segments"}
             /\ stop_pipeline("mapped_segments")
             /\ faults' = faults + read_cost
             /\ UNCHANGED <<files, start_cache, saved, runs, diarized_segments, texts,
                            loaded_steps, last_write, observed, other_records, getters>>
    /\ UNCHANGED <<whisper_result, diarization_list, diarization_reconstructed,
                   audio_features, text_embeddings, text_emotions, speech_emotions,
                   keywords>>

\* pipeline2.py 624-635.
Step5_AudioFeatures ==
    /\ pc = "step5"
    /\ UNCHANGED <<avars, run_frame>>
    /\ \E rd \in ReadOutcomes("audio_features") :
       unread' = unread_after("audio_features", rd) /\
       LET loaded == load_intermediate_json("audio_features", rd)
       IN \/ /\ ~loaded.is_none
             /\ audio_features' = loaded.data
             /\ step_loaded("audio_features")
          \/ /\ loaded.is_none
             /\ \E io \in IoOutcomes :
                   /\ audio_features' = extract_audio_features(diarized_segments,
                                                               WavSamples(wav_source))
                   /\ step_computed(extract_audio_features(diarized_segments,
                                                           WavSamples(wav_source)),
                                    "audio_features", io)
          \/ /\ loaded.is_none
             /\ step_raised("audio_features")
             /\ UNCHANGED audio_features
    /\ UNCHANGED <<whisper_result, diarization_list, diarization_reconstructed,
                   diarized_segments, texts, text_embeddings, text_emotions,
                   speech_emotions, keywords>>

\* pipeline2.py 637-648.
Step6_TextEmbeddings ==
    /\ pc = "step6"
    /\ UNCHANGED <<avars, run_frame>>
    /\ \E rd \in ReadOutcomes("text_embeddings") :
       unread' = unread_after("text_embeddings", rd) /\
       LET loaded == load_intermediate_json("text_embeddings", rd)
       IN \/ /\ ~loaded.is_none
             /\ text_embeddings' = loaded.data
             /\ step_loaded("text_embeddings")
          \/ /\ loaded.is_none
             /\ \E io \in IoOutcomes :
                   /\ text_embeddings' = get_text_embeddings(texts)
                   /\ step_computed(get_text_embeddings(texts), "text_embeddings", io)
          \/ /\ loaded.is_none
             /\ step_raised("text_embeddings")
             /\ UNCHANGED text_embeddings
    /\ UNCHANGED <<whisper_result, diarization_list, diarization_reconstructed,
                   diarized_segments, texts, audio_features, text_emotions,
                   speech_emotions, keywords>>

\* pipeline2.py 650-661.
Step7a_TextEmotions ==
    /\ pc = "step7a"
    /\ UNCHANGED <<avars, run_frame>>
    /\ \E rd \in ReadOutcomes("text_emotions") :
       unread' = unread_after("text_emotions", rd) /\
       LET loaded == load_intermediate_json("text_emotions", rd)
       IN \/ /\ ~loaded.is_none
             /\ text_emotions' = loaded.data
             /\ step_loaded("text_emotions")
          \/ /\ loaded.is_none
             /\ \E io \in IoOutcomes :
                   /\ text_emotions' = run_text_emotion_analysis(texts)
                   /\ step_computed(run_text_emotion_analysis(texts), "text_emotions", io)
          \/ /\ loaded.is_none
             /\ step_raised("text_emotions")
             /\ UNCHANGED text_emotions
    /\ UNCHANGED <<whisper_result, diarization_list, diarization_reconstructed,
                   diarized_segments, texts, audio_features, text_embeddings,
                   speech_emotions, keywords>>

\* The outcomes of the classifications of a call in which those of raising
\* raise and those of unlabelled return no label.
outcomes_of(segments, raising, unlabelled) ==
    [i \in 1..Len(segments) |->
        IF i \in raising THEN "raises"
        ELSE IF i \in unlabelled THEN "no_label"
        ELSE "label"]

\* pipeline2.py 663-674. The classifier may raise or give no label on any
\* of the segments it is called for: the function handles that per segment
\* (438-443) and the step succeeds.
Step7b_SpeechEmotions ==
    /\ pc = "step7b"
    /\ UNCHANGED <<avars, run_frame>>
    /\ \E rd \in ReadOutcomes("speech_emotions") :
       unread' = unread_after("speech_emotions", rd) /\
       LET loaded == load_intermediate_json("speech_emotions", rd)
           called == calls_classifier(diarized_segments, WavSamples(wav_source))
       IN \/ /\ ~loaded.is_none
             /\ speech_emotions' = loaded.data
             /\ step_loaded("speech_emotions")
          \/ /\ loaded.is_none
             /\ \E io \in IoOutcomes, unlabelled \in SUBSET called :
                   LET emotions == run_speech_emotion_recognition(
                                       diarized_segments, WavSamples(wav_source),
                                       outcomes_of(diarized_segments, {}, unlabelled))
                   IN /\ speech_emotions' = emotions
                      /\ step_computed(emotions, "speech_emotions", io)
          \/ /\ loaded.is_none
             /\ \E io \in {"ok", "open_failed", "write_failed"},
                   raising \in SUBSET called \ {{}} :
                   \E unlabelled \in SUBSET (called \ raising) :
                      LET emotions == run_speech_emotion_recognition(
                                          diarized_segments, WavSamples(wav_source),
                                          outcomes_of(diarized_segments, raising, unlabelled))
                      IN /\ faults + read_cost + 1 + io_cost(io) <= MaxFaults
                         /\ speech_emotions' = emotions
                         /\ cache' = save_intermediate_json(emotions, "speech_emotions", io)
                         /\ computed' = computed \cup {"speech_emotions"}
                         /\ saved' = [saved EXCEPT !["speech_emotions"] = Append(@, io)]
                         /\ faults' = faults + read_cost + 1 + io_cost(io)
                         /\ pc' = "step8"
                         /\ last_write' = write_record(emotions, "speech_emotions", io)
                         /\ observed' = observe("speech_emotions", emotions)
                         /\ other_records' =
                               other_records_after_save(emotions, "speech_emotions", io)
                         /\ getter_returns("speech_emotions")
                         /\ UNCHANGED <<wav_exists, saved_final, result, start_cache,
                                        stopped, runs, loaded_steps>>
          \/ /\ loaded.is_none
             /\ step_raised("speech_emotions")
             /\ UNCHANGED speech_emotions
    /\ UNCHANGED <<whisper_result, diarization_list, diarization_reconstructed,
                   diarized_segments, texts, audio_features, text_embeddings,
                   text_emotions, keywords>>

\* pipeline2.py 676-687.
Step8_Keywords ==
    /\ pc = "step8"
    /\ UNCHANGED <<avars, run_frame>>
    /\ \E rd \in ReadOutcomes("keywords") :
       unread' = unread_after("keywords", rd) /\
       LET loaded == load_intermediate_json("keywords", rd)
       IN \/ /\ ~loaded.is_none
             /\ keywords' = loaded.data
             /\ step_loaded("keywords")
          \/ /\ loaded.is_none
             /\ \E io \in IoOutcomes :
                   /\ keywords' = extract_keywords(texts)
                   /\ step_computed(extract_keywords(texts), "keywords", io)
          \/ /\ loaded.is_none
             /\ step_raised("keywords")
             /\ UNCHANGED keywords
    /\ UNCHANGED <<whisper_result, diarization_list, diarization_reconstructed,
                   diarized_segments, texts, audio_features, text_embeddings,
                   text_emotions, speech_emotions>>

\* pipeline2.py 689-731: the records are combined, the simplified document is
\* given to save_final_results and the full document is returned.
Step9_CombineAndSave ==
    /\ pc = "combine"
    /\ UNCHANGED avars
    /\ LET fs == final_segments(diarized_segments, audio_features, text_embeddings,
                                text_emotions, speech_emotions, keywords)
       IN /\ result' = output_data(whisper_result.text, final_segments_after_simplify(fs))
          /\ diarized_segments' =
                diarized_segments_after_combine(diarized_segments, audio_features,
                                                text_embeddings, text_emotions,
                                                speech_emotions, keywords)
          /\ saved_final' = [kind |-> "saved",
                             filename_base |-> "a_no_embeddings",
                             full_output_data |->
                                 output_data(whisper_result.text, simplified_segments(fs)),
                             segmented_data |-> simplified_segments(fs)]
          /\ published' = Append(published, saved_final')
    /\ pc' = "idle"
    /\ UNCHANGED <<whisper_result, diarization_list, diarization_reconstructed, texts,
                   audio_features, text_embeddings, text_emotions, speech_emotions,
                   keywords>>
    /\ UNCHANGED <<cache, wav_exists, start_cache, computed, saved, stopped, runs, faults,
                   loaded_steps, unread, last_write, observed, other_records, getters,
                   hf_token, recording, wav_source, prev_run>>

\* ---------------------------------------------------- specification Spec
\* Nothing of the aligner's calls happens in Spec.
AlignIdle ==
    /\ whisper_segments = <<>>
    /\ diarization = <<>>
    /\ mapped_segments = <<>>
    /\ aligned = <<>>
    /\ apc = "off"
    /\ pipeline_mapped = <<>>
    /\ feat_segments = <<>>
    /\ feat_samples = 0
    /\ feat_result = [kind |-> "none"]
    /\ ser_result = [kind |-> "none"]

\* The globals as module import leaves them (37-44) and no call yet.
NoCallYet ==
    /\ models = [m \in ModelNames |-> "unset"]
    /\ constructed = [m \in ModelNames |-> 0]
    /\ last_get = [m \in ModelNames |-> "none"]
    /\ loaded_steps = {}
    /\ unread = {}
    /\ published = <<>>
    /\ prev_run = [ended |-> FALSE, stopped |-> "none", completed |-> {}]
    /\ recording = "r1"
    /\ wav_source = "none"

\* A new output directory.
NewOutputDir ==
    /\ last_write = [s \in Stages |-> NeverWritten]
    /\ observed = [s \in Stages \cup {"preprocess"} |-> {}]
    /\ other_records = OtherRecords
    /\ cache = [s \in Stages |-> Absent]
    /\ wav_exists = FALSE
    /\ saved_final = NoFinal
    /\ whisper_result = [text |-> "", segments |-> <<>>]
    /\ diarization_list = <<>>
    /\ diarization_reconstructed = <<>>
    /\ diarized_segments = <<>>
    /\ texts = <<>>
    /\ audio_features = <<>>
    /\ text_embeddings = <<>>
    /\ text_emotions = <<>>
    /\ speech_emotions = <<>>
    /\ keywords = <<>>
    /\ result = NotReturned
    /\ start_cache = [s \in Stages |-> Absent]
    /\ computed = {}
    /\ saved = [s \in Stages |-> <<>>]
    /\ stopped = "none"
    /\ runs = 0
    /\ faults = 0

\* The module is imported with a token and no call was made yet.
PipelineIdle ==
    /\ NoCallYet
    /\ NewOutputDir
    /\ hf_token = "set"
    /\ pc = "idle"

\* What HF_TOKEN can be when the process starts.
TokenValues == {"set", "empty", "missing"}

\* pipeline2.py 29-44, the import of the module: os.environ[...] = api_key
\* raises TypeError when HF_TOKEN is missing (31-32) and nothing of the
\* module can be called; otherwise the globals are None and calls can begin.
ImportModule ==
    /\ pc = "unloaded"
    /\ pc' = IF hf_token = "missing" THEN "import_failed" ELSE "idle"
    /\ UNCHANGED <<avars, files, locals, result, start_cache, computed, saved, stopped,
                   runs, faults, loaded_steps, unread, last_write, observed, other_records,
                   getters, run_frame>>

\* A process starts: the module is not imported yet.
Init ==
    /\ AlignIdle
    /\ NoCallYet
    /\ NewOutputDir
    /\ hf_token \in TokenValues
    /\ pc = "unloaded"

Next ==
    \/ ImportModule
    \/ Step1_Preprocess
    \/ Step2_Transcribe
    \/ Step3_Diarize
    \/ Step4_MapSpeakers
    \/ Step5_AudioFeatures
    \/ Step6_TextEmbeddings
    \/ Step7a_TextEmotions
    \/ Step7b_SpeechEmotions
    \/ Step8_Keywords
    \/ Step9_CombineAndSave

Spec == Init /\ [][Next]_vars

\* ------------------------------------------------ specification SpecAlign
InitAlign ==
    /\ whisper_segments \in SeqsUpTo(SegmentsIn, MaxSegs)
    /\ diarization \in SeqsUpTo(TurnsIn, MaxTurns)
    /\ mapped_segments = <<>>
    /\ aligned = <<>>
    /\ apc = "input"
    /\ pipeline_mapped = <<>>
    /\ feat_segments = <<>>
    /\ feat_samples = 0
    /\ feat_result = [kind |-> "none"]
    /\ ser_result = [kind |-> "none"]
    /\ PipelineIdle

\* A call of pipeline2.map_speakers_to_segments.
CallMapSpeakers ==
    /\ apc = "input"
    /\ mapped_segments' = map_speakers_to_segments(whisper_segments, diarization)
    /\ apc' = "mapped"
    /\ UNCHANGED <<whisper_segments, diarization, aligned, pipeline_mapped, fvars, pvars>>

\* A call of python_diarization.align_segments.
CallAlignSegments ==
    /\ apc = "input"
    /\ aligned' = align_segments(whisper_segments, diarization)
    /\ apc' = "aligned"
    /\ UNCHANGED <<whisper_segments, diarization, mapped_segments, pipeline_mapped,
                   fvars, pvars>>

\* A call of pipeline.map_speakers_to_segments.
CallPipelineMapSpeakers ==
    /\ apc = "input"
    /\ \E orders \in [1..Len(whisper_segments) -> SetOrders] :
          pipeline_mapped' =
              pipeline_map_speakers_to_segments(whisper_segments, diarization, orders)
    /\ apc' = "pipeline_mapped"
    /\ UNCHANGED <<whisper_segments, diarization, mapped_segments, aligned, fvars, pvars>>

NextAlign == CallMapSpeakers \/ CallAlignSegments \/ CallPipelineMapSpeakers

SpecAlign == InitAlign /\ [][NextAlign]_vars

\* -------------------------------------------------- specification SpecAgg
\* The aggregation step on lists of every length: a call that found all its
\* records in the cache, whatever their lengths (records are never checked
\* against each other), and is about to combine them.
AlignedOfLen(n) ==
    [i \in 1..n |-> [start |-> i - 1, end |-> i, text |-> Strip(TextAt(i - 1)),
                     speaker |-> IF i = 1 THEN "A" ELSE "B"]]
FeaturesOfLen(n) == [i \in 1..n |-> AudioFeature([start |-> i - 1, end |-> i])]
EmbeddingsOfLen(n) == [i \in 1..n |-> Embedding(Strip(TextAt(i - 1)))]
TextLabelsOfLen(n) == [i \in 1..n |-> TextLabel(Strip(TextAt(i - 1)))]
SpeechLabelsOfLen(n) == [i \in 1..n |-> SpeechLabel([start |-> i - 1, end |-> i])]
KeywordsOfLen(n) == [i \in 1..n |-> YakeKeywords(Strip(TextAt(i - 1)))]

InitAgg ==
    /\ AlignIdle
    /\ whisper_result \in WhisperResults
    /\ diarization_list \in DiarizationResults
    /\ diarization_reconstructed = reconstruct(<<>>, diarization_list)
    /\ diarized_segments \in {AlignedOfLen(n) : n \in 1..MaxLen}
    /\ texts = texts_of(diarized_segments)
    /\ audio_features \in {FeaturesOfLen(n) : n \in 0..MaxLen}
    /\ text_embeddings \in {EmbeddingsOfLen(n) : n \in 0..MaxLen}
    /\ text_emotions \in {TextLabelsOfLen(n) : n \in 0..MaxLen}
    /\ speech_emotions \in {SpeechLabelsOfLen(n) : n \in 0..MaxLen}
    /\ keywords \in {KeywordsOfLen(n) : n \in 0..MaxLen}
    /\ cache = [s \in Stages |->
                  json_dump(CASE s = "whisper_raw" -> whisper_result
                              [] s = "diarization_raw" -> diarization_list
                              [] s = "mapped_segments" -> diarized_segments
                              [] s = "audio_features" -> audio_features
                              [] s = "text_embeddings" -> text_embeddings
                              [] s = "text_emotions" -> text_emotions
                              [] s = "speech_emotions" -> speech_emotions
                              [] OTHER -> keywords,
                            PayloadType(s))]
    /\ start_cache = cache
    /\ last_write = [s \in Stages |-> [status |-> "ok", payload |-> json_load(cache[s])]]
    /\ observed = [s \in Stages \cup {"preprocess"} |-> {}]
    /\ other_records = OtherRecords
    /\ wav_exists = TRUE
    /\ wav_source = "r1"
    /\ recording = "r1"
    /\ hf_token = "set"
    /\ models = [m \in ModelNames |-> "unset"]
    /\ constructed = [m \in ModelNames |-> 0]
    /\ last_get = [m \in ModelNames |-> "none"]
    /\ loaded_steps = Stages
    /\ unread = {}
    /\ published = <<>>
    /\ prev_run = [ended |-> FALSE, stopped |-> "none", completed |-> {}]
    /\ saved_final = NoFinal
    /\ pc = "combine"
    /\ result = NotReturned
    /\ computed = {}
    /\ saved = [s \in Stages |-> <<>>]
    /\ stopped = "none"
    /\ runs = 1
    /\ faults = 0

NextAgg == Step9_CombineAndSave

SpecAgg == InitAgg /\ [][NextAgg]_vars

\* ------------------------------------------------ specification SpecCache
\* Calls of save_intermediate_json and load_intermediate_json in any order on
\* the records of two steps of one output directory and file name.
CacheKeys == {"text_emotions", "speech_emotions"}

\* The payloads of the calls: lists of labels of every length up to MaxLen.
PayloadsOf(step_name) ==
    IF step_name = "text_emotions"
    THEN {TextLabelsOfLen(n) : n \in 0..MaxLen}
    ELSE {SpeechLabelsOfLen(n) : n \in 0..MaxLen}

InitCache == AlignIdle /\ PipelineIdle

\* A call of save_intermediate_json (122-133).
CallSave ==
    /\ \E k \in CacheKeys, io \in {"ok", "open_failed", "write_failed"} :
          \E p \in PayloadsOf(k) :
             /\ cache' = save_intermediate_json(p, k, io)
             /\ last_write' = write_record(p, k, io)
             /\ other_records' = other_records_after_save(p, k, io)
    /\ UNCHANGED <<avars, wav_exists, saved_final, pc, locals, result, start_cache,
                   computed, saved, stopped, runs, faults, loaded_steps, unread, getters,
                   observed, run_frame>>

\* A call of load_intermediate_json (135-150), in which the read of a file
\* that exists ends rd; the caller keeps what it returned when that is not
\* None.
CallLoad ==
    /\ \E k \in CacheKeys :
          \E rd \in IF cache[k] # Absent THEN {"ok", "read_failed"} ELSE {"ok"} :
             LET got == load_intermediate_json(k, rd)
             IN /\ loaded_steps' = IF got.is_none THEN loaded_steps \ {k}
                                   ELSE loaded_steps \cup {k}
                /\ unread' = IF rd = "read_failed" THEN unread \cup {k} ELSE unread \ {k}
                /\ text_emotions' = IF k = "text_emotions" /\ ~got.is_none
                                    THEN got.data ELSE text_emotions
                /\ speech_emotions' = IF k = "speech_emotions" /\ ~got.is_none
                                      THEN got.data ELSE speech_emotions
    /\ UNCHANGED <<avars, files, pc, whisper_result, diarization_list,
                   diarization_reconstructed, diarized_segments, texts, audio_features,
                   text_embeddings, keywords, result, start_cache, computed, saved,
                   stopped, runs, faults, last_write, observed, other_records, getters,
                   run_frame>>

NextCache == CallSave \/ CallLoad

SpecCache == InitCache /\ [][NextCache]_vars

\* --------------------------------------------- specification SpecFeatures
\* Calls of extract_audio_features and of run_speech_emotion_recognition on
\* segments of every shape: before the
\* audio, past its end, empty, inverted, and cut by the end of the audio.
FeatureTimes == (0 - 2)..4
FeatureSegments == {[start |-> s, end |-> e] : s \in FeatureTimes, e \in FeatureTimes}
SampleCounts == 0..MaxSamples

InitFeatures ==
    /\ whisper_segments = <<>>
    /\ diarization = <<>>
    /\ mapped_segments = <<>>
    /\ aligned = <<>>
    /\ apc = "off"
    /\ pipeline_mapped = <<>>
    /\ feat_segments \in SeqsUpTo(FeatureSegments, MaxSegs)
    /\ feat_samples \in SampleCounts
    /\ feat_result = [kind |-> "none"]
    /\ ser_result = [kind |-> "none"]
    /\ PipelineIdle

\* No call has been made yet.
NoCallMade == feat_result.kind = "none" /\ ser_result.kind = "none"

\* pipeline2.py 272-328: a call that returns.
CallExtractFeatures ==
    /\ NoCallMade
    /\ feat_result' = [kind |-> "returned",
                       features |-> extract_audio_features(feat_segments, feat_samples)]
    /\ UNCHANGED <<whisper_segments, diarization, mapped_segments, aligned, apc,
                   pipeline_mapped, feat_segments, feat_samples, ser_result, pvars>>

\* pipeline2.py 284-293, 311-324: a call that raises: at 0 when the WAV is
\* missing or cannot be loaded, at i when librosa fails on segment i.
CallExtractFeaturesRaises ==
    /\ NoCallMade
    /\ \E at \in {0} \cup calls_librosa(feat_segments, feat_samples) :
           feat_result' = [kind |-> "raised", at |-> at]
    /\ UNCHANGED <<whisper_segments, diarization, mapped_segments, aligned, apc,
                   pipeline_mapped, feat_segments, feat_samples, ser_result, pvars>>

\* What a call of run_speech_emotion_recognition leaves alone: all of the
\* pipeline's state but the globals of the getters.
ser_frame == <<whisper_segments, diarization, mapped_segments, aligned, apc,
               pipeline_mapped, feat_segments, feat_samples, feat_result,
               files, pc, locals, result, start_cache, computed, saved, stopped, runs,
               faults, loaded_steps, unread, last_write, observed, other_records,
               run_frame>>

\* pipeline2.py 372-446: a call of run_speech_emotion_recognition that
\* returns: get_ser_models returns the classifier (384), building it when the
\* global is None, and the classifications end as outcomes says (the outcome
\* of a segment the classifier is not called for is of no effect: "label").
CallSpeechEmotions ==
    /\ NoCallMade
    /\ UNCHANGED ser_frame
    /\ getter_returns("speech_emotions")
    /\ \E raising \in SUBSET calls_classifier(feat_segments, feat_samples) :
          \E unlabelled \in SUBSET (calls_classifier(feat_segments, feat_samples) \ raising) :
             LET outcomes == outcomes_of(feat_segments, raising, unlabelled)
             IN ser_result' = [kind |-> "returned",
                               outcomes |-> outcomes,
                               emotions |-> run_speech_emotion_recognition(
                                                feat_segments, feat_samples, outcomes)]

\* pipeline2.py 384-408: a call that raises before the loop: get_ser_models
\* raises (with the global None, or set when the move to the device raised),
\* or it returns and the WAV is missing or cannot be loaded.
CallSpeechEmotionsRaises ==
    /\ NoCallMade
    /\ UNCHANGED ser_frame
    /\ \E g \in GetterOutcomes("ser") : get_model("ser", g)
    /\ ser_result' = [kind |-> "raised"]

NextFeatures ==
    \/ CallExtractFeatures
    \/ CallExtractFeaturesRaises
    \/ CallSpeechEmotions
    \/ CallSpeechEmotionsRaises

SpecFeatures == InitFeatures /\ [][NextFeatures]_vars

\* ================================================================== claims
\* The overlap of two time spans as the data model defines it:
\* max(0, min(a.end, b.end) - max(a.start, b.start)).
SpanOverlap(a, b) ==
    LET lo == IF a.start >= b.start THEN a.start ELSE b.start
        hi == IF a.end <= b.end THEN a.end ELSE b.end
    IN IF hi > lo THEN hi - lo ELSE 0

\* The overlap with seg summed over the first n tracks that belong to speaker k.
RECURSIVE TotalOverlapUpTo(_, _, _, _)
TotalOverlapUpTo(seg, tracks, k, n) ==
    IF n = 0 THEN 0
    ELSE (IF tracks[n].speaker = k THEN SpanOverlap(seg, tracks[n]) ELSE 0)
         + TotalOverlapUpTo(seg, tracks, k, n - 1)

TotalOverlap(seg, tracks, k) == TotalOverlapUpTo(seg, tracks, k, Len(tracks))

\* Some track overlaps seg for a strictly positive time.
HasPositiveOverlap(seg, tracks) ==
    \E j \in 1..Len(tracks) : SpanOverlap(seg, tracks[j]) > 0

\* C6: pipeline2.map_speakers_to_segments gives every segment that some track
\* overlaps for a positive time a speaker whose overlap, summed over all of
\* that speaker's tracks, is the largest of all speakers' sums.
C6_MaxTotalOverlap ==
    apc = "mapped" =>
        \A i \in 1..Len(whisper_segments) :
            HasPositiveOverlap(whisper_segments[i], diarization) =>
                /\ i \in DOMAIN mapped_segments
                /\ mapped_segments[i].speaker \in Speakers
                /\ \A k \in Speakers :
                      TotalOverlap(whisper_segments[i], diarization, k)
                        <= TotalOverlap(whisper_segments[i], diarization,
                                        mapped_segments[i].speaker)

\* C6 witness: the spec's example on the grid, with the segments out of order:
\* a segment whose winner A has two tracks summing to 2, neither longer than
\* the single track of B, which also overlaps a track of A.
C6_Witness ==
    /\ apc = "mapped"
    /\ Len(whisper_segments) = 2
    /\ whisper_segments[1].start > whisper_segments[2].start
    /\ diarization = <<[speaker |-> "A", start |-> 0, end |-> 1],
                       [speaker |-> "B", start |-> 1, end |-> 2],
                       [speaker |-> "A", start |-> 1, end |-> 2]>>
    /\ whisper_segments[2] = [start |-> 0, end |-> 2, text |-> " hi"]
    /\ mapped_segments[2].speaker = "A"

\* C7: a segment that no track overlaps for a strictly positive time gets the
\* sentinel "Unknown", and a segment gets a diarization speaker only if a
\* track of that speaker overlaps it for a strictly positive time.
C7_UnknownIffNoOverlap ==
    apc = "mapped" =>
        \A i \in 1..Len(whisper_segments) :
            /\ i \in DOMAIN mapped_segments
            /\ ~HasPositiveOverlap(whisper_segments[i], diarization)
                  => mapped_segments[i].speaker = "Unknown"
            /\ mapped_segments[i].speaker # "Unknown"
                  => \E j \in 1..Len(diarization) :
                        /\ diarization[j].speaker = mapped_segments[i].speaker
                        /\ SpanOverlap(whisper_segments[i], diarization[j]) > 0

\* C7 witness: a zero-length segment inside a track and a segment that only
\* touches a track's boundary, both given the sentinel.
C7_Witness ==
    /\ apc = "mapped"
    /\ Len(whisper_segments) = 2
    /\ diarization = <<[speaker |-> "A", start |-> 0, end |-> 1]>>
    /\ whisper_segments[1] = [start |-> 1, end |-> 2, text |-> "yo "]
    /\ whisper_segments[2] = [start |-> 0, end |-> 0, text |-> " hi"]
    /\ mapped_segments[1].speaker = "Unknown"
    /\ mapped_segments[2].speaker = "Unknown"

\* out has one element per element of in, in the same order, with the same
\* start and end.
SameSpans(in, out) ==
    /\ Len(out) = Len(in)
    /\ \A i \in 1..Len(in) : out[i].start = in[i].start /\ out[i].end = in[i].end

\* C8: both aligners preserve length and order: output element i has the
\* start and end of input segment i, whatever the tracks are.
C8_LengthAndOrderPreserved ==
    /\ apc = "mapped" => SameSpans(whisper_segments, mapped_segments)
    /\ apc = "aligned" => SameSpans(whisper_segments, aligned)

\* C8 witness: two segments out of ascending order and no track at all.
C8_Witness ==
    /\ apc = "mapped"
    /\ diarization = <<>>
    /\ Len(whisper_segments) = 2
    /\ whisper_segments[1].start > whisper_segments[2].start
    /\ Len(mapped_segments) = 2
    /\ mapped_segments[1].start = whisper_segments[1].start

\* ------------------------------------------------- claims of the executor
\* The record the call found for stage s is readable: it is the JSON text of
\* a value, and the call's open and read of it did not fail.
ReadableRecord(s) == start_cache[s].kind = "json" /\ s \notin unread

\* The records of the first k stages of the stage order are all readable.
FirstReadable(k) == \A i \in 1..k : ReadableRecord(StageNames[i])

RequiredSteps == {"preprocess", "whisper_raw", "diarization_raw", "mapped_segments"}
OptionalSteps == {"audio_features", "text_embeddings", "text_emotions",
                  "speech_emotions", "keywords"}

\* The stages after a step in the stage order.
LaterStages(step) ==
    IF step = "preprocess" THEN Stages
    ELSE {StageNames[i] : i \in (StageIndex(step) + 1)..Len(StageNames)}

\* C2 (required-stage failure): when preprocessing, transcription,
\* diarization or alignment fails, the run has ended by returning the empty
\* result, and no later stage was computed or had its record written in
\* that run. Preprocessing has failed as well when it raised out of the call.
C2_RequiredFailureAborts ==
    (stopped \in RequiredSteps \/ stopped = "raised")
        => /\ pc = "idle"
           /\ result = EmptyDict
           /\ \A s \in LaterStages(IF stopped = "raised" THEN "preprocess" ELSE stopped) :
                 /\ s \notin computed
                 /\ saved[s] = <<>>
                 /\ cache[s] = start_cache[s]

\* C3 (optional-stage isolation), as the spec states it: when the compute
\* function of an optional stage fails, the run is not ended with the empty
\* result; it goes on to the later stages and to the document.
C3_OptionalFailureIsolated ==
    stopped \in OptionalSteps => ~(pc = "idle" /\ result = EmptyDict)

\* The field of a final record that a stage fills.
FieldOf(rec, step) ==
    CASE step = "audio_features" -> rec.audio_features = "unavailable"
      [] step = "text_embeddings" -> rec.text_embedding = "unavailable"
      [] step = "text_emotions" -> rec.text_emotion = "unavailable"
      [] step = "speech_emotions" -> rec.speech_emotion = "unavailable"
      [] OTHER -> rec.keywords = "unavailable"

\* C4 (unavailable marker), as the spec states it: after an optional stage
\* failed, the run returns a document with one record per aligned segment
\* whose field of the failed stage is the marker "unavailable".
C4_FailedFieldMarked ==
    (pc = "idle" /\ stopped \in OptionalSteps)
        => /\ result.kind = "document"
           /\ Len(result.segments) = Len(diarized_segments)
           /\ \A i \in 1..Len(result.segments) : FieldOf(result.segments[i], stopped)

\* The value a stage holds in the run's local variables.
LocalRecord(s) ==
    json_dump(CASE s = "whisper_raw" -> whisper_result
                [] s = "diarization_raw" -> diarization_list
                [] s = "mapped_segments" -> diarized_segments
                [] s = "audio_features" -> audio_features
                [] s = "text_embeddings" -> text_embeddings
                [] s = "text_emotions" -> text_emotions
                [] s = "speech_emotions" -> speech_emotions
                [] OTHER -> keywords,
              PayloadType(s))

\* A run has ended in which no compute function failed and the transcript had
\* segments.
RunCompleted == pc = "idle" /\ runs > 0 /\ stopped = "none"

\* The record the call found for stage s fails to parse, or the call could
\* not open or read it.
UnreadableRecord(s) == start_cache[s] = Corrupt \/ s \in unread

\* C5 (corrupt-cache recovery), as the spec states it: a stage whose record
\* fails to parse or cannot be read is recomputed, its record is overwritten
\* with the recomputed value, and the run returns the document.
C5_CorruptRecordOverwritten ==
    \A s \in Stages :
        (RunCompleted /\ UnreadableRecord(s))
            => /\ s \in computed
               /\ result.kind = "document"
               /\ cache[s] = LocalRecord(s)

\* C5, amended: the stage is recomputed, one write of its record is
\* attempted, the record holds the recomputed value when that write
\* succeeded, and the run returns the document whether it did or not.
C5_CorruptRecordOverwrittenIfWritten ==
    \A s \in Stages :
        (RunCompleted /\ UnreadableRecord(s))
            => /\ s \in computed
               /\ result.kind = "document"
               /\ Len(saved[s]) = 1
               /\ saved[s] = <<"ok">> => cache[s] = LocalRecord(s)

\* The second run could not read the record of the speech emotions and found
\* that of the keywords damaged, recomputed both, wrote both records and
\* returned the document.
C5_Witness ==
    /\ runs = 2 /\ RunCompleted
    /\ start_cache["keywords"] = Corrupt
    /\ start_cache["speech_emotions"].kind = "json"
    /\ "speech_emotions" \in unread
    /\ saved["speech_emotions"] = <<"ok">>
    /\ cache["speech_emotions"] = LocalRecord("speech_emotions")
    /\ saved["keywords"] = <<"ok">>
    /\ cache["keywords"] = json_dump(keywords, PayloadType("keywords"))
    /\ result.kind = "document"

\* ----------------------------------------------- claims of the aggregator
\* The least of a set of naturals.
Least(S) == CHOOSE n \in S : \A m \in S : n <= m

\* The lengths of the six lists the aggregation joins.
ListLengths ==
    {Len(diarized_segments), Len(audio_features), Len(text_embeddings),
     Len(text_emotions), Len(speech_emotions), Len(keywords)}

\* C10 (aggregation on mismatched lengths): the aggregation step can always
\* be taken; the document it returns has as many records as the shortest of
\* the aligned list and the five field lists, and record i holds element i of
\* each list, nothing else.
C10_TruncatesToShortest ==
    /\ pc = "combine" => ENABLED Step9_CombineAndSave
    /\ (pc = "idle" /\ result.kind = "document")
        => /\ Len(result.segments) = Least(ListLengths)
           /\ \A i \in 1..Len(result.segments) :
                 /\ result.segments[i].start = diarized_segments[i].start
                 /\ result.segments[i].end = diarized_segments[i].end
                 /\ result.segments[i].text = diarized_segments[i].text
                 /\ result.segments[i].speaker = diarized_segments[i].speaker
                 /\ result.segments[i].audio_features = audio_features[i]
                 /\ result.segments[i].text_embedding = text_embeddings[i]
                 /\ result.segments[i].text_emotion = text_emotions[i]
                 /\ result.segments[i].speech_emotion = speech_emotions[i]
                 /\ result.segments[i].keywords = keywords[i]

\* Three aligned segments and one field list of two: a document of two records.
C10_Witness ==
    /\ pc = "idle" /\ result.kind = "document"
    /\ Len(diarized_segments) = 3
    /\ Len(keywords) = 2
    /\ Len(audio_features) = 3 /\ Len(text_embeddings) = 3
    /\ Len(text_emotions) = 3 /\ Len(speech_emotions) = 3
    /\ Len(result.segments) = 2

\* ------------------------------------------ claims of the executor, part 2
\* The steps the call has handled so far: their record was loaded or their
\* compute function was called.
HandledSteps == computed \cup loaded_steps

\* C11 (ordering): a step is taken up only when it is the next one in the
\* declaration order, and every stage before it was loaded or computed in this
\* call, none of them having failed.
C11_DeclarationOrder ==
    [][\A s \in (computed' \cup loaded_steps') \ HandledSteps :
          /\ s = StageNames[Cardinality(HandledSteps) + 1]
          /\ \A i \in 1..(StageIndex(s) - 1) :
                StageNames[i] \in HandledSteps /\ StageNames[i] # stopped]_vars

\* A call that loaded the transcription and computed every later stage, in
\* order, and is about to combine.
C11_Witness ==
    /\ pc = "combine"
    /\ loaded_steps = {"whisper_raw"}
    /\ computed = Stages \ {"whisper_raw"}

\* The stages before a step in the declaration order.
EarlierStages(step) ==
    IF step \in Stages THEN {StageNames[i] : i \in 1..(StageIndex(step) - 1)} ELSE {}

\* The call that ended with a required-stage failure left alone the records
\* written or read before the failure.
AbortKeepsRecords ==
    stopped \in RequiredSteps
        => \A s \in EarlierStages(stopped) :
              /\ s \in loaded_steps => cache[s] = start_cache[s]
              /\ (s \in computed /\ saved[s] = <<"ok">>) => cache[s] = LocalRecord(s)

\* The call is a retry of one that a required stage's failure ended.
IsRetry == prev_run.ended /\ prev_run.stopped \in RequiredSteps

\* The retry has come to the stage that failed and computes it again.
RetryComputesFailed ==
    (IsRetry /\ prev_run.stopped \in HandledSteps) => prev_run.stopped \in computed

\* C12 (cache after an abort), as the spec states it: the abort leaves the
\* records written before it unchanged, and the retry computes none of the
\* stages completed before the failure and computes the failed stage.
C12_RetrySkipsCompleted ==
    /\ AbortKeepsRecords
    /\ IsRetry => \A s \in prev_run.completed : s \notin computed
    /\ RetryComputesFailed

\* The retry has come to the stage that failed: it loads its record when
\* there is one it can read (the call that failed could not open it), and
\* computes the stage otherwise.
RetryResumesAtFailed ==
    (IsRetry /\ prev_run.stopped \in HandledSteps)
        => IF ReadableRecord(prev_run.stopped)
           THEN prev_run.stopped \in loaded_steps
           ELSE prev_run.stopped \in computed

\* C12, amended: the retry computes none of the stages completed before the
\* failure whose record is readable (it is there, parses, and the retry can
\* open and read it); a completed stage whose write failed, or whose record
\* the retry cannot read, is computed again; and the stage that failed is
\* computed unless the retry finds a readable record of it.
C12_RetrySkipsRecorded ==
    /\ AbortKeepsRecords
    /\ IsRetry => \A s \in prev_run.completed :
                     ReadableRecord(s) => s \notin computed
    /\ RetryResumesAtFailed

\* A retry after a failed diarization: the transcription is loaded and the
\* diarization is computed.
C12_Witness ==
    /\ IsRetry
    /\ prev_run.stopped = "diarization_raw"
    /\ prev_run.completed = {"whisper_raw"}
    /\ "whisper_raw" \in loaded_steps
    /\ "diarization_raw" \in computed
    /\ pc = "step4"

\* C13 (no final document of an incomplete run): a call that returned the
\* empty result gave nothing to save_final_results, and a call that did had
\* every stage loaded or computed and none failed.
C13_NoFinalWhenIncomplete ==
    /\ result = EmptyDict => published = <<>>
    /\ published # <<>> => /\ stopped = "none"
                           /\ HandledSteps = Stages

\* The second call failed at its last stage and wrote no final document; the
\* one of the first call is still there.
C13_Witness ==
    /\ runs = 2
    /\ stopped = "keywords"
    /\ result = EmptyDict
    /\ published = <<>>
    /\ saved_final.kind = "saved"

\* C14 (one write per stage and call): in one call a record is written at
\* most once and only by a stage whose compute function was called; the
\* record of a loaded stage is not written.
C14_WrittenAtMostOnce ==
    \A s \in Stages :
        /\ Len(saved[s]) <= 1
        /\ saved[s] # <<>> => s \in computed
        /\ s \in loaded_steps => saved[s] = <<>> /\ cache[s] = start_cache[s]

\* A call that loaded three records and computed and wrote the five others.
C14_Witness ==
    /\ pc = "combine"
    /\ loaded_steps = {"whisper_raw", "diarization_raw", "mapped_segments"}
    /\ \A s \in Stages \ loaded_steps : saved[s] = <<"ok">>
    /\ \A s \in loaded_steps : saved[s] = <<>>

\* ------------------------------------------------ claims of the publisher
\* C15 (publishing the full document), as the spec states it: a call that
\* completed all stages gave save_final_results, as its last step, the full
\* document it returns: audio_file, full_transcript and the segment records
\* with audio_features and text_embedding.
C15_FullDocumentPublished ==
    (pc = "idle" /\ result.kind = "document")
        => /\ published # <<>>
           /\ published[Len(published)].filename_base = "a"
           /\ published[Len(published)].full_output_data = result

\* The keys a simplified record lacks.
HeavyKeys == {"audio_features", "text_embedding"}

\* C16 (simplified document): the document given to save_final_results has
\* the audio_file, the full_transcript and as many segments in the same order
\* as the full document the call returns, and each of its records is the full
\* record without the keys audio_features and text_embedding, nothing else
\* removed or changed.
C16_SimplifiedIsFullWithoutHeavy ==
    (pc = "idle" /\ result.kind = "document" /\ published # <<>>)
        => LET full == result
               simple == published[Len(published)].full_output_data
           IN /\ simple.audio_file = full.audio_file
              /\ simple.full_transcript = full.full_transcript
              /\ Len(simple.segments) = Len(full.segments)
              /\ \A i \in 1..Len(simple.segments) :
                    /\ DOMAIN simple.segments[i] = (DOMAIN full.segments[i]) \ HeavyKeys
                    /\ \A k \in DOMAIN simple.segments[i] :
                          simple.segments[i][k] = full.segments[i][k]

\* A document of three records was returned and its simplified form written.
C16_Witness ==
    /\ pc = "idle" /\ result.kind = "document"
    /\ Len(result.segments) = 3
    /\ Len(published) = 1
    /\ Len(published[1].segmented_data) = 3
    /\ "text_embedding" \in DOMAIN result.segments[3]

\* -------------------------------------------------- claims of the process
\* C17 (missing credential), as the spec states it: in a process without a
\* token, or with an empty one, no stage is computed, no model is built and
\* no file of the output directory is written.
C17_NoStageWithoutCredential ==
    hf_token # "set"
        => /\ computed = {}
           /\ ~wav_exists
           /\ \A s \in Stages : cache[s] = Absent
           /\ \A m \in ModelNames : constructed[m] = 0
           /\ saved_final = NoFinal

\* C18 (no invalidation): a record that is readable when the call begins is
\* loaded and used as the stage's output, also after an earlier stage was
\* computed in the call, and an existing trimmed WAV is kept whatever the
\* recording given to the call.
RecordsUsedAsFound ==
    \A s \in HandledSteps :
        ReadableRecord(s)
            => /\ s \in loaded_steps
               /\ LocalRecord(s) = start_cache[s]

ReadsOf(s) == IF cache[s] # Absent THEN {"ok", "read_failed"} ELSE {"ok"}

\* C19 (cache round trip), as the spec states it: when the last write of a
\* record succeeded with payload p, every call of load_intermediate_json
\* returns p, and for a record that no call has written it returns None.
C19_CacheRoundTrip ==
    \A s \in Stages : \A rd \in ReadsOf(s) :
        /\ last_write[s].status = "ok"
              => load_intermediate_json(s, rd) = Value(last_write[s].payload)
        /\ last_write[s].status = "never"
              => load_intermediate_json(s, rd) = NoneValue

\* C19, amended: when the last write of a record succeeded with payload p, a
\* call of load_intermediate_json returns p if it can open and read the file
\* and None if it cannot; for a record that no call has written it returns
\* None.
C19_CacheRoundTripIfRead ==
    \A s \in Stages :
        /\ last_write[s].status = "ok"
              => /\ load_intermediate_json(s, "ok") = Value(last_write[s].payload)
                 /\ load_intermediate_json(s, "read_failed") = NoneValue
        /\ last_write[s].status = "never"
              => \A rd \in ReadsOf(s) : load_intermediate_json(s, rd) = NoneValue

\* A record written twice, last with two labels, was loaded; the other
\* record was written with one label and the last call could not read it.
C19_Witness ==
    /\ last_write["text_emotions"] = [status |-> "ok", payload |-> TextLabelsOfLen(2)]
    /\ "text_emotions" \in loaded_steps
    /\ text_emotions = TextLabelsOfLen(2)
    /\ last_write["speech_emotions"] = [status |-> "ok", payload |-> SpeechLabelsOfLen(1)]
    /\ "speech_emotions" \in unread
    /\ "speech_emotions" \notin loaded_steps
    /\ apc = "off"

\* C20 (singletons), as the spec states it: each model is constructed at most
\* once, a set singleton was constructed once, and a getter whose last call
\* raised left its singleton unset.
C20_ConstructedOnceOrUnset ==
    \A m \in ModelNames :
        /\ constructed[m] <= 1
        /\ models[m] # "unset" => constructed[m] = 1
        /\ last_get[m] = "raised" => models[m] = "unset"

\* C21: a call of extract_audio_features that returns gives one record per
\* segment, record i being that of segment i, and the all-zero record for a
\* segment whose sample range is out of bounds, empty or inverted; such a
\* segment never makes the call raise.
C21_SampleRange(seg) ==
    [first |-> to_sample(seg.start), last |-> to_sample(seg.end)]
C21_BadRange(seg, n) ==
    \/ C21_SampleRange(seg).first >= n
    \/ C21_SampleRange(seg).last <= 0
    \/ C21_SampleRange(seg).first >= C21_SampleRange(seg).last
C21_OnePerSegmentZeroDefault ==
    /\ feat_result.kind = "returned" =>
          /\ Len(feat_result.features) = Len(feat_segments)
          /\ \A i \in 1..Len(feat_segments) :
                /\ C21_BadRange(feat_segments[i], feat_samples)
                      => feat_result.features[i] = ZeroFeatures
                /\ feat_result.features[i] # ZeroFeatures
                      => /\ C21_SampleRange(feat_segments[i]).first >= 0
                               => feat_result.features[i].rms_energy[1]
                                     = C21_SampleRange(feat_segments[i]).first
                         /\ feat_result.features[i].rms_energy[2]
                               = Min2(feat_samples, C21_SampleRange(feat_segments[i]).last)
    /\ feat_result.kind = "raised" /\ feat_result.at > 0 =>
          ~C21_BadRange(feat_segments[feat_result.at], feat_samples)

\* A call given an inverted segment and then a segment with audio returned.
C21_Witness ==
    /\ feat_result.kind = "returned"
    /\ Len(feat_segments) = 2
    /\ feat_segments[1].start > feat_segments[1].end
    /\ feat_result.features[1] = ZeroFeatures
    /\ feat_result.features[2] # ZeroFeatures

\* ------------------------------------------- claims of the later sections
\* The stage's compute function returned in the call.
ComputeSucceeded(s) == s \in computed /\ stopped # s

\* C22 (a record per computed stage), as the spec states it: once a stage's
\* compute function has returned, the stage has a cache record, and when a
\* call returns the document every stage has one.
C22_RecordAfterCompute ==
    /\ \A s \in Stages : ComputeSucceeded(s) => cache[s].kind # "absent"
    /\ (pc = "idle" /\ result.kind = "document")
          => \A s \in Stages : cache[s].kind # "absent"

\* C22, amended: once a stage's compute function has returned, one write of
\* its record has been attempted before the next stage starts, and the record
\* holds the computed value when that write succeeded; when a call returns
\* the document, every stage has a readable record or a write that failed in
\* the call.
C22_RecordAfterComputeIfWritten ==
    /\ \A s \in Stages :
          ComputeSucceeded(s)
              => /\ Len(saved[s]) = 1
                 /\ saved[s] = <<"ok">> => cache[s] = LocalRecord(s)
    /\ (pc = "idle" /\ result.kind = "document")
          => \A s \in Stages :
                \/ cache[s].kind = "json"
                \/ s \in computed /\ saved[s] # <<"ok">>

\* A call computed all eight stages, wrote all eight records and returned the
\* document.
C22_Witness ==
    /\ pc = "idle" /\ result.kind = "document"
    /\ computed = Stages
    /\ \A s \in Stages : saved[s] = <<"ok">> /\ cache[s] = LocalRecord(s)

\* The one element of a set of one element.
TheOne(S) == CHOOSE x \in S : TRUE

\* Every call was given the same recording, and every compute function
\* returned the same value each time it was called in the process.
SameOutputsForSameInputs ==
    /\ \A k \in DOMAIN observed : Cardinality(observed[k]) <= 1
    /\ \A k \in {"preprocess", "whisper_raw", "diarization_raw", "speech_emotions"} :
          observed[k] # {}

\* The document of a call that starts on an empty output directory and in
\* which nothing fails, for the recording and the outputs of the transcriber,
\* the diarizer and the speech emotion classifier.
UninterruptedDocument(rec, w, d, sm) ==
    LET ds == map_speakers_to_segments(w.segments, reconstruct(<<>>, d))
        tx == texts_of(ds)
    IN output_data(w.text,
                   final_segments(ds, extract_audio_features(ds, WavSamples(rec)),
                                  get_text_embeddings(tx), run_text_emotion_analysis(tx),
                                  sm, extract_keywords(tx)))

\* C23 (resume equivalence): when every call gets the same recording and the
\* collaborators return the same outputs for the same inputs, the document a
\* call returns, whatever calls were aborted before it and whatever records
\* they left, is the document of an uninterrupted call on an empty cache.
C23_ResumeEquivalence ==
    (pc = "idle" /\ result.kind = "document" /\ SameOutputsForSameInputs)
        => result = UninterruptedDocument(TheOne(observed["preprocess"]),
                                          TheOne(observed["whisper_raw"]),
                                          TheOne(observed["diarization_raw"]),
                                          TheOne(observed["speech_emotions"]))

\* The turns of a list of turns, each with the number of times it occurs.
TurnCount(list, t) == Cardinality({i \in 1..Len(list) : list[i] = t})
SameTurns(a, b) ==
    /\ Len(a) = Len(b)
    /\ \A i \in 1..Len(b) : TurnCount(a, b[i]) = TurnCount(b, b[i])

\* C24 (reconstruction of the turns), as the spec states it: the annotation
\* step 3 gives the aligner holds exactly the turns of the persisted list,
\* none lost and none relabelled, so that the alignment is that of the
\* diarizer's own turns.
C24_ReconstructionKeepsTurns ==
    (pc = "step4" /\ ~map_raises(whisper_result.segments))
        => /\ SameTurns(diarization_reconstructed, diarization_list)
           /\ map_speakers_to_segments(whisper_result.segments, diarization_reconstructed)
                 = map_speakers_to_segments(whisper_result.segments, diarization_list)

\* C25 (align_segments takes the largest total), as the spec states it:
\* python_diarization.align_segments gives every segment that some turn
\* overlaps for a positive time the speaker whose overlap, summed over all of
\* that speaker's turns, is the largest.
C25_AlignMaxTotalOverlap ==
    apc = "aligned" =>
        \A i \in 1..Len(whisper_segments) :
            HasPositiveOverlap(whisper_segments[i], diarization) =>
                \E k \in Speakers :
                    /\ aligned[i].speaker = "Speaker_" \o k
                    /\ \A other \in Speakers :
                          TotalOverlap(whisper_segments[i], diarization, other)
                            <= TotalOverlap(whisper_segments[i], diarization, k)

\* C26 (zero overlap is no overlap), as the spec states it: both
\* python_diarization.align_segments and pipeline.map_speakers_to_segments
\* give the unknown sentinel to every segment that no turn overlaps for a
\* strictly positive time, a zero-length segment inside a turn included.
C26_UnknownWithoutPositiveOverlap ==
    /\ apc = "aligned" =>
          \A i \in 1..Len(whisper_segments) :
              ~HasPositiveOverlap(whisper_segments[i], diarization)
                  => aligned[i].speaker = "Speaker_unknown"
    /\ apc = "pipeline_mapped" =>
          \A i \in 1..Len(whisper_segments) :
              ~HasPositiveOverlap(whisper_segments[i], diarization)
                  => pipeline_mapped[i].speaker = "Unknown"

\* The place, in the tracks' order, of the first track of speaker k that
\* overlaps seg for a strictly positive time.
FirstPositiveTurn(seg, tracks, k) ==
    Least({j \in 1..Len(tracks) :
              tracks[j].speaker = k /\ SpanOverlap(seg, tracks[j]) > 0})

\* C27 (tie-break of pipeline2.map_speakers_to_segments): when several
\* speakers have the same largest total overlap with a segment, the segment is
\* given the one of them whose first positively overlapping track comes
\* first in the tracks' order.
C27_TieGoesToEarliestTurn ==
    apc = "mapped" =>
        \A i \in 1..Len(whisper_segments) :
            HasPositiveOverlap(whisper_segments[i], diarization) =>
                \A k \in Speakers \ {mapped_segments[i].speaker} :
                    (/\ mapped_segments[i].speaker \in Speakers
                     /\ TotalOverlap(whisper_segments[i], diarization, k)
                           = TotalOverlap(whisper_segments[i], diarization,
                                          mapped_segments[i].speaker))
                        => FirstPositiveTurn(whisper_segments[i], diarization,
                                             mapped_segments[i].speaker)
                             < FirstPositiveTurn(whisper_segments[i], diarization, k)

\* A segment that B and A overlap equally, B's track coming first, is given
\* to B, also when a track of A that does not overlap it comes before.
C27_Witness ==
    /\ apc = "mapped"
    /\ whisper_segments = <<[start |-> 1, end |-> 2, text |-> "yo "]>>
    /\ diarization = <<[speaker |-> "A", start |-> 0, end |-> 1],
                       [speaker |-> "B", start |-> 1, end |-> 2],
                       [speaker |-> "A", start |-> 1, end |-> 2]>>
    /\ mapped_segments[1].speaker = "B"

\* ----------------------------------- claims of the aggregator, part 2
\* C28 (aggregation by index): record i of the document is aligned segment i
\* with the five keys audio_features, text_embedding, text_emotion,
\* speech_emotion and keywords added, each holding element i of its list; no
\* value is moved to another index and no record lacks one of the five keys.
C28_RecordIsSegmentPlusFields ==
    (pc = "idle" /\ result.kind = "document")
        => \A i \in 1..Len(result.segments) :
              LET rec == result.segments[i]
                  five == [audio_features |-> audio_features[i],
                           text_embedding |-> text_embeddings[i],
                           text_emotion |-> text_emotions[i],
                           speech_emotion |-> speech_emotions[i],
                           keywords |-> keywords[i]]
              IN /\ DOMAIN rec = DOMAIN diarized_segments[i] \cup DOMAIN five
                 /\ \A k \in DOMAIN five : rec[k] = five[k]
                 /\ \A k \in DOMAIN diarized_segments[i] \ DOMAIN five :
                       rec[k] = diarized_segments[i][k]

\* A document of three records whose keywords differ from record to record.
C28_Witness ==
    /\ pc = "idle" /\ result.kind = "document"
    /\ Len(result.segments) = 3
    /\ result.segments[1].keywords # result.segments[2].keywords
    /\ result.segments[2].keywords # result.segments[3].keywords
    /\ result.segments[3].keywords = keywords[3]

\* C29 (the aggregation leaves its inputs alone): after the aggregation and
\* the making of the simplified document, every aligned segment has exactly
\* the fields start, end, text and speaker, and every record of the document
\* the call returns has audio_features and text_embedding, while the records
\* of the simplified document have neither.
C29_InputsUnchanged ==
    (pc = "idle" /\ result.kind = "document" /\ published # <<>>)
        => /\ \A i \in 1..Len(diarized_segments) :
                 DOMAIN diarized_segments[i] = {"start", "end", "text", "speaker"}
           /\ \A i \in 1..Len(result.segments) :
                 {"audio_features", "text_embedding"} \subseteq DOMAIN result.segments[i]
           /\ \A i \in 1..Len(published[Len(published)].segmented_data) :
                 {"audio_features", "text_embedding"}
                     \cap DOMAIN published[Len(published)].segmented_data[i] = {}

\* A document of two records made from three aligned segments.
C29_Witness ==
    /\ pc = "idle" /\ result.kind = "document" /\ published # <<>>
    /\ Len(diarized_segments) = 3
    /\ Len(result.segments) = 2
    /\ Len(published[1].segmented_data) = 2
    /\ DOMAIN diarized_segments[1] = {"start", "end", "text", "speaker"}

\* -------------------------------------------- claims of the cache, part 2
\* The stages whose file a step has changed.
ChangedRecords == {s \in Stages : cache'[s] # cache[s]}

\* C30 (a write changes one record): a step of a call changes at most one
\* record of the output directory, that of the stage whose
\* save_intermediate_json it called; the records of the other run are never
\* changed; and no step removes a record, so that the records
\* present never become fewer, from one call to the next either.
C30_WriteChangesOneRecord ==
    [][/\ Cardinality(ChangedRecords) <= 1
       /\ \A s \in ChangedRecords :
             /\ Len(saved'[s]) = Len(saved[s]) + 1
             /\ s \in computed' \ computed
       /\ other_records' = other_records
       /\ \A s \in Stages : cache[s].kind # "absent" => cache'[s].kind # "absent"]_vars

\* The second call has written the record of the keywords; the records the
\* first call wrote and the records of the other run are as they were.
C30_Witness ==
    /\ runs = 2
    /\ saved["keywords"] = <<"ok">>
    /\ cache["keywords"] # start_cache["keywords"]
    /\ \A s \in Stages \ {"keywords"} :
          cache[s].kind = "json" /\ cache[s] = start_cache[s]
    /\ other_records = OtherRecords

\* ------------------------------------- claims of the executor, part 3
\* The stages that follow the mapping of speakers.
EnrichmentStages ==
    {"audio_features", "text_embeddings", "text_emotions", "speech_emotions", "keywords"}

\* Step 4 of the call has loaded or computed an empty list of aligned segments.
AlignedIsEmpty ==
    /\ "mapped_segments" \in computed \cup loaded_steps
    /\ stopped # "mapped_segments"
    /\ diarized_segments = <<>>

\* C31 (no aligned segment): a call whose aligned segments are empty returns
\* {} right after step 4: no enrichment stage is loaded or computed, no
\* enrichment record is touched, save_final_results is not called, and the
\* records of whisper_raw, diarization_raw and mapped_segments that the call
\* read or wrote are in the cache.
C31_EmptyAlignmentStops ==
    AlignedIsEmpty
        => /\ pc = "idle" /\ result = EmptyDict
           /\ (computed \cup loaded_steps) \cap EnrichmentStages = {}
           /\ \A s \in EnrichmentStages : cache[s] = start_cache[s] /\ saved[s] = <<>>
           /\ published = <<>>
           /\ \A s \in Stages \ EnrichmentStages :
                 /\ s \in loaded_steps => cache[s] = start_cache[s] /\ cache[s].kind = "json"
                 /\ saved[s] = <<"ok">> => cache[s] = LocalRecord(s)

\* A transcript without segments: the call wrote the three records and
\* returned {}.
C31_Witness ==
    /\ AlignedIsEmpty
    /\ pc = "idle" /\ result = EmptyDict
    /\ computed = {"whisper_raw", "diarization_raw", "mapped_segments"}
    /\ cache["whisper_raw"].kind = "json"
    /\ cache["diarization_raw"].kind = "json"
    /\ cache["mapped_segments"] = json_dump(<<>>, PayloadType("mapped_segments"))
    /\ cache["audio_features"] = Absent

\* ------------------------------- claims of the speech emotion recogniser
\* The classifier is called for segment i: its samples are in range and its
\* slice of the audio is not empty.
C32_Classified(seg, n) ==
    /\ ~C21_BadRange(seg, n)
    /\ segment_audio(C21_SampleRange(seg).first, C21_SampleRange(seg).last, n).end
          > segment_audio(C21_SampleRange(seg).first, C21_SampleRange(seg).last, n).start

\* C32: a call of run_speech_emotion_recognition that comes to its loop
\* returns one label per segment, label i being that of segment i: "unknown"
\* for a segment whose sample range is empty or out of bounds or whose
\* classification raises, and the classifier's label for every segment the
\* classifier labels, whatever happened to the segments before it.
C32_OneLabelPerSegment ==
    ser_result.kind = "returned" =>
        /\ Len(ser_result.emotions) = Len(feat_segments)
        /\ \A i \in 1..Len(feat_segments) :
              /\ C21_BadRange(feat_segments[i], feat_samples)
                    => ser_result.emotions[i] = "unknown"
              /\ ~C32_Classified(feat_segments[i], feat_samples)
                    => ser_result.emotions[i] = "unknown"
              /\ (C32_Classified(feat_segments[i], feat_samples)
                     /\ ser_result.outcomes[i] = "raises")
                    => ser_result.emotions[i] = "unknown"
              /\ (C32_Classified(feat_segments[i], feat_samples)
                     /\ ser_result.outcomes[i] = "label")
                    => ser_result.emotions[i] \in {"hap", "neu"}

\* The classification of the first segment raised and the second segment,
\* out of range, was not classified; a call whose first classification
\* raised labelled its second segment.
C32_Witness ==
    /\ ser_result.kind = "returned"
    /\ Len(feat_segments) = 2
    /\ C32_Classified(feat_segments[1], feat_samples)
    /\ ser_result.outcomes[1] = "raises"
    /\ ser_result.emotions[1] = "unknown"
    /\ C32_Classified(feat_segments[2], feat_samples)
    /\ ser_result.outcomes[2] = "label"
    /\ ser_result.emotions[2] = "neu"

====
